---- MODULE Spec2Model ----
(***************************************************************************)
(* Project Health Monitor: a model of the metrics aggregator               *)
(* (DashboardService), the task-tracker client (FlowluService), the        *)
(* time-tracker client (ClockifyService) and the source-control client     *)
(* (GitLabController).                                                     *)
(*                                                                         *)
(* The specifications of the module share its variables:                   *)
(*   SpecDuration  ClockifyService.getTaskActualDuration as a function of  *)
(*                 the upstream answer (strings are sequences of           *)
(*                 one-character strings);                                 *)
(*   SpecStatus    ClockifyService.getDurationStatus;                      *)
(*   SpecMetrics   one DashboardService.calculateMetrics invocation, one   *)
(*                 step per awaited provider call;                         *)
(*   SpecClients   concurrent provider calls on the process-wide client    *)
(*                 instances, with a discrete millisecond clock;           *)
(*   SpecRetry     the task-tracker calls of SpecClients under the         *)
(*                 fairness of the event loop;                             *)
(*   SpecReports   the report operations on a task list;                   *)
(*   SpecFacade    one request to the HTTP facade, one step per provider   *)
(*                 call;                                                   *)
(*   SpecReleases  two DashboardService.getProjectReleases calls;          *)
(*   SpecTasks     one FlowluService.getProjectTasks call;                 *)
(*   SpecMonitor   the transaction log and its statistics route;           *)
(*   SpecLoop      the duration loop of the operations.                    *)
(*                                                                         *)
(* JavaScript numbers that carry a duration are kept in fixed point, in    *)
(* units of 1/Scale hour, which is exact for every value the bounded       *)
(* inputs can produce.                                                     *)
(***************************************************************************)
EXTENDS Integers, Sequences, FiniteSets, TLC

\* ---------------------------------------------------------------- bounds
\* Longest run of digits in the hour or the minute field of a duration.
MaxDigits == 2
\* Largest hour count of a generated duration string.
MaxHour == 12
\* Most tasks the task tracker returns for one project (both stages).
MaxTasks == 2
\* Most commits the tag comparison returns, most tags the host lists.
MaxCommits == 5
MaxReleases == 1

\* The last clock tick of a behaviour.
MaxTicks == 12

\* Most releases the host lists for getProjectReleases.
MaxTags == 2
\* Most bugs of the project getProjectReleases is called for.
MaxBugs == 5

\* Most transactions logged.
MaxTransactions == 3

\* ------------------------------------------------------ program constants
RATE_LIMIT_DELAY == 1000
MAX_RETRIES == 3
RETRY_DELAY == 2000

\* ------------------------------------------------------- JavaScript values
\* An optional value (T | undefined): None is undefined, Some(v) holds v.
None == <<>>
Some(v) == <<v>>

\* Truthiness of an optional string: undefined and "" are falsy.
TruthyStr(o) == o # None /\ o[1] # ""

\* Truthiness of an optional number: undefined and 0 are falsy.
TruthyNum(o) == o # None /\ o[1] # 0

DigitChars == <<"0", "1", "2", "3", "4", "5", "6", "7", "8", "9">>

IsDigit(c) == \E d \in 1..10 : DigitChars[d] = c

DigitVal(c) == (CHOOSE d \in 1..10 : DigitChars[d] = c) - 1

RECURSIVE Pow10(_)
Pow10(n) == IF n = 0 THEN 1 ELSE 10 * Pow10(n - 1)

\* Fixed-point unit of a duration value: 1 hour = Scale units.
Scale == Pow10(MaxDigits)

\* ------------------------------------------------- ClockifyService parsing
\* Index of the first "PT" in s, 0 when there is none (the regular
\* expression is not anchored, so the match starts at the first "PT").
FindPT(s) ==
  IF \E i \in 1..(Len(s) - 1) : s[i] = "P" /\ s[i + 1] = "T"
  THEN CHOOSE i \in 1..(Len(s) - 1) :
         /\ s[i] = "P" /\ s[i + 1] = "T"
         /\ \A j \in 1..(i - 1) : ~(s[j] = "P" /\ s[j + 1] = "T")
  ELSE 0

\* Length of the longest run of digits of s that starts at position p (\d+).
RECURSIVE DigitRun(_, _)
DigitRun(s, p) ==
  IF p <= Len(s) /\ IsDigit(s[p]) THEN 1 + DigitRun(s, p + 1) ELSE 0

\* One optional group (?:(\d+)X)? tried at position p: the captured digits
\* and the position after the group, or no capture and the same position.
MatchGroup(s, p, unit) ==
  LET k == DigitRun(s, p) IN
    IF k >= 1 /\ p + k <= Len(s) /\ s[p + k] = unit
    THEN [text |-> Some(SubSeq(s, p, p + k - 1)), next |-> p + k + 1]
    ELSE [text |-> None, next |-> p]

\* duration.match(/PT(?:(\d+)H)?(?:(\d+)M)?(?:\d+S)?/): null, or the two
\* captures matches[1] and matches[2].
DurationMatch(s) ==
  LET i == FindPT(s) IN
    IF i = 0 THEN [matched |-> FALSE, h |-> None, m |-> None]
    ELSE LET g1 == MatchGroup(s, i + 2, "H")
             g2 == MatchGroup(s, g1.next, "M")
         IN [matched |-> TRUE, h |-> g1.text, m |-> g2.text]

\* parseInt of a string of decimal digits.
RECURSIVE ParseInt(_)
ParseInt(t) ==
  IF Len(t) = 0 THEN 0
  ELSE 10 * ParseInt(SubSeq(t, 1, Len(t) - 1)) + DigitVal(t[Len(t)])

\* String(n) for a non-negative integer: its digits, no leading zeros.
RECURSIVE NumToStr(_)
NumToStr(n) ==
  IF n < 10 THEN <<DigitChars[n + 1]>>
  ELSE NumToStr(n \div 10) \o <<DigitChars[(n % 10) + 1]>>

\* A variant of the template literal that pads the minutes to two digits.
DecimalTextPadded(hours, minutes) ==
  NumToStr(hours) \o <<".">>
    \o (IF minutes < 10 THEN <<"0">> ELSE <<>>) \o NumToStr(minutes)

\* The template literal `${hours}.${minutes}`.
DecimalText(hours, minutes) == NumToStr(hours) \o <<".">> \o NumToStr(minutes)

\* parseFloat of digits "." digits, in fixed point: the k-th digit after the
\* dot weighs Scale / 10^k.
ParseFloat(t) ==
  LET dot  == CHOOSE i \in 1..Len(t) : t[i] = "."
      ip   == SubSeq(t, 1, dot - 1)
      fp   == SubSeq(t, dot + 1, Len(t))
  IN ParseInt(ip) * Scale + ParseInt(fp) * Pow10(MaxDigits - Len(fp))

\* Lines 55-66 of getTaskActualDuration: the value computed from a duration
\* string that passed the schema.
DurationValue(duration) ==
  IF duration = <<>> \/ duration = <<"P", "T", "0", "S">> THEN 0
  ELSE LET mt == DurationMatch(duration) IN
    IF ~mt.matched THEN 0
    ELSE LET hours   == ParseInt(IF mt.h = None THEN <<"0">> ELSE mt.h[1])
             minutes == ParseInt(IF mt.m = None THEN <<"0">> ELSE mt.m[1])
         IN ParseFloat(DecimalText(hours, minutes))

\* The try block of getTaskActualDuration on an upstream answer
\* [ok, duration] (duration an optional string): makeRequest throws when the
\* request failed and TaskDurationSchema.parse throws when the body has no
\* duration string; otherwise the value of the duration string is returned.
DurationTry(resp) ==
  IF ~resp.ok \/ resp.duration = None THEN [threw |-> TRUE, value |-> 0]
  ELSE [threw |-> FALSE, value |-> DurationValue(resp.duration[1])]

\* A variant of the catch block that rethrows what it caught.
DurationCatchRethrow(t) == t

\* The catch block of getTaskActualDuration: logs the error, returns 0.0.
DurationCatch(t) == [threw |-> FALSE, value |-> 0]

\* ClockifyService.getTaskActualDuration: whether the call threw, and the
\* value it returned.
DurationOutcome(resp) ==
  LET t == DurationTry(resp) IN IF t.threw THEN DurationCatch(t) ELSE t

\* The value getTaskActualDuration returns: a failed request and a body
\* whose duration is not a string both end in the catch block, which returns 0.
getTaskActualDuration(resp) == DurationOutcome(resp).value

\* A variant of getDurationStatus that looks at the actual duration first.
getDurationStatusActualFirst(estimate, actualDuration) ==
  IF actualDuration = 0 THEN "Task Not Started"
  ELSE IF ~TruthyNum(estimate) THEN "Estimate Not Set"
  ELSE IF actualDuration > estimate[1] THEN "Overdue"
  ELSE "On Time"

\* ClockifyService.getDurationStatus(estimate, actualDuration): estimate is
\* an optional number, both numbers in fixed point.
getDurationStatus(estimate, actualDuration) ==
  IF ~TruthyNum(estimate) \/ estimate = Some(0) THEN "Estimate Not Set"
  ELSE IF actualDuration = 0 THEN "Task Not Started"
  ELSE IF actualDuration > estimate[1] THEN "Overdue"
  ELSE "On Time"

\* ------------------------------------------------------------- the state
VARIABLES
  d_src,     \* SpecDuration: what the time tracker holds for the task
  d_out,     \* SpecDuration: optional return value of getTaskActualDuration
  d_threw,   \* SpecDuration: whether getTaskActualDuration threw
  s_in,      \* SpecStatus: the arguments [estimate, actualDuration]
  s_out,     \* SpecStatus: optional return value of getDurationStatus
  r_req,     \* SpecFacade: the HTTP request: endpoint, query, body
  r_pc,      \* SpecFacade: "received", "service" (awaiting) or "responded"
  r_svc,     \* SpecFacade: the locals of the aggregator operation invoked
  r_log,     \* SpecFacade: the provider calls made, with their answers
  r_res,     \* SpecFacade: the responses sent, in order
  p_tasks,   \* SpecReports: the task list getProjectTasks returns
  p_out,     \* SpecReports: optional results of the three report operations
  m_pc,      \* calculateMetrics: the await the invocation is suspended at
  m_args,    \* calculateMetrics: [projectId] (optional number)
  m_git,     \* gitLabCommits.totalCommits and the upstream commit count
  m_rel,     \* totalReleases
  m_projects,\* projects returned by getAllProjects (their ids)
  m_target,  \* targetProjects
  m_pi,      \* index in targetProjects of the project being processed
  m_tasks,   \* tasks of that project, as returned by getProjectTasks
  m_ti,      \* index in tasks of the next task of the inner loop
  m_tot,     \* totalFeatures, totalBugs, totalDevelopmentTime, totalQaTime
  m_out,     \* optional return value; the error message when it threw
  m_calls,   \* log of provider calls: projects fetched, duration requests
  m_seen,    \* tally of the task lists received, by the words of the spec
  now,       \* SpecClients: Date.now(), in milliseconds
  flowlu,    \* the FlowluService instance: config, lastRequestTime
  clockify,  \* the ClockifyService instance: config
  calls,     \* the provider calls in flight, one record of locals per call
  lastSent,  \* when the latest task-tracker HTTP request was sent, if any
  g_up,      \* SpecReleases: what the upstreams answer, the same for every call
  g_pc,      \* getProjectReleases: "idle" or "map" (callbacks awaited)
  g_rows,    \* the rows the callbacks of Promise.all have returned so far
  g_outs,    \* the outcomes of the finished getProjectReleases calls, in order
  t_req,     \* SpecTasks: the two requests of getProjectTasks, by stage
  t_ans,     \* the bodies the task tracker has answered with, by stage
  t_out,     \* optional outcome of getProjectTasks
  x_log,     \* SpecMonitor: the ApiTransaction collection, in order of creation
  x_res,     \* the latest response of the monitoring routes
  l_op,      \* SpecLoop: the operation whose duration loop runs
  l_pc,      \* "idle", "fetch" (task list awaited), "awaiting" (duration) or "done"
  l_left,    \* the projects whose task list is still to be fetched
  l_tasks,   \* the task list the loop iterates over
  l_reqs,    \* the indexes of the tasks a duration was requested for, in order
  l_inflight \* the indexes of the tasks whose duration request is unanswered

durVars == <<d_src, d_out, d_threw>>
statusVars == <<s_in, s_out>>
facadeVars == <<r_req, r_pc, r_svc, r_log, r_res>>
reportVars == <<p_tasks, p_out>>
metricVars == <<m_pc, m_args, m_git, m_rel, m_projects, m_target, m_pi,
                m_tasks, m_ti, m_tot, m_out, m_calls, m_seen>>
clientVars == <<now, flowlu, clockify, calls, lastSent>>
releaseVars == <<g_up, g_pc, g_rows, g_outs>>
taskVars == <<t_req, t_ans, t_out>>
monitorVars == <<x_log, x_res>>
loopVars == <<l_op, l_pc, l_left, l_tasks, l_reqs, l_inflight>>
vars == <<durVars, statusVars, facadeVars, reportVars, metricVars,
          clientVars, releaseVars, taskVars, monitorVars, loopVars>>

\* What the actions of one specification leave alone: the variables of the
\* other specifications.
notDurVars == <<statusVars, facadeVars, metricVars, clientVars, reportVars,
                releaseVars, taskVars, monitorVars, loopVars>>
notStatusVars == <<durVars, facadeVars, metricVars, clientVars, reportVars,
                   releaseVars, taskVars, monitorVars, loopVars>>
notFacadeVars == <<durVars, statusVars, metricVars, clientVars, reportVars,
                   releaseVars, taskVars, monitorVars, loopVars>>
notMetricVars == <<durVars, statusVars, facadeVars, clientVars, reportVars,
                   releaseVars, taskVars, monitorVars, loopVars>>
notClientVars == <<durVars, statusVars, facadeVars, metricVars, reportVars,
                   releaseVars, taskVars, monitorVars, loopVars>>
notReleaseVars == <<durVars, statusVars, facadeVars, reportVars, metricVars,
                    clientVars, taskVars, monitorVars, loopVars>>
notTaskVars == <<durVars, statusVars, facadeVars, reportVars, metricVars,
                 clientVars, releaseVars, monitorVars, loopVars>>
notMonitorVars == <<durVars, statusVars, facadeVars, reportVars, metricVars,
                    clientVars, releaseVars, taskVars, loopVars>>
notLoopVars == <<durVars, statusVars, facadeVars, reportVars, metricVars,
                 clientVars, releaseVars, taskVars, monitorVars>>
notReportVars == <<durVars, statusVars, facadeVars, metricVars, clientVars,
                   releaseVars, taskVars, monitorVars, loopVars>>

\* Two callers use the clients at the same time, as the two requests of
\* getProjectTasks' Promise.all do, or two dashboard requests in flight.
Calls == {1, 2}

\* Date.now() when the process starts: any time at least RATE_LIMIT_DELAY
\* after the epoch, so that the first request never waits.
StartTime == RATE_LIMIT_DELAY

\* The clock advances in steps of half the rate-limit delay.
TickMs == RATE_LIMIT_DELAY \div 2

\* The locals of a provider call that has not begun.
NoCall ==
  [pc |-> "idle", kind |-> "none", retryCount |-> 0, wakeAt |-> 0,
   status |-> 0, out |-> [status |-> "none"],
   sent |-> 0, n429 |-> 0, recvAt |-> 0, after |-> {}]

\* The value of the client variables while no provider call is made.
ClientsIdle ==
  /\ now = StartTime
  /\ flowlu = [config |-> "flowluConfig", lastRequestTime |-> 0]
  /\ clockify = [config |-> "clockifyConfig"]
  /\ calls = [c \in Calls |-> NoCall]
  /\ lastSent = None

\* The value of the calculateMetrics variables while no invocation runs.
MetricsIdle ==
  /\ m_pc = "idle"
  /\ m_args = [projectId |-> None]
  /\ m_git = [totalCommits |-> 0, upstream |-> 0]
  /\ m_rel = 0
  /\ m_projects = <<>>
  /\ m_target = <<>>
  /\ m_pi = 0
  /\ m_tasks = <<>>
  /\ m_ti = 1
  /\ m_tot = [totalFeatures |-> 0, totalBugs |-> 0,
              totalDevelopmentTime |-> 0, totalQaTime |-> 0]
  /\ m_out = [status |-> "none"]
  /\ m_calls = [projects |-> <<>>, durations |-> 0]
  /\ m_seen = [both |-> 0, bugs |-> 0, qa |-> 0, dev |-> 0]

\* The locals of an aggregator operation that has not been invoked.
NoService ==
  [op |-> "none", projectId |-> None, todo |-> <<>>, releases |-> 0,
   missingCommit |-> FALSE, durations |-> <<>>, branches |-> <<>>]

\* A request the facade does not read any field of.
NoRequest ==
  [endpoint |-> "none", olderTag |-> None, newerTag |-> None,
   projectId |-> None, searchTerm |-> None, body |-> None]

FacadeIdle ==
  /\ r_req = NoRequest
  /\ r_pc = "idle"
  /\ r_svc = NoService
  /\ r_log = <<>>
  /\ r_res = <<>>

ReportsIdle ==
  /\ p_tasks = <<>>
  /\ p_out = [dashboard |-> None, task |-> None, bug |-> None]

\* The value of the getProjectReleases variables while no call is made.
ReleasesIdle ==
  /\ g_up = [releases |-> <<>>, tasks |-> <<>>, branches |-> "ok",
             failing |-> None]
  /\ g_pc = "idle"
  /\ g_rows = <<>>
  /\ g_outs = <<>>

\* The value of the getProjectTasks variables while no call is made.
TasksIdle ==
  /\ t_req = [s \in {"9", "10"} |-> "none"]
  /\ t_ans = [s \in {"9", "10"} |-> None]
  /\ t_out = [status |-> "none", tasks |-> <<>>]

\* The value of the monitoring variables before any request.
MonitorIdle ==
  /\ x_log = <<>>
  /\ x_res = [status |-> 0]

\* The value of the duration-loop variables while no operation runs.
LoopIdle ==
  /\ l_op = "none"
  /\ l_pc = "idle"
  /\ l_left = 0
  /\ l_tasks = <<>>
  /\ l_reqs = <<>>
  /\ l_inflight = {}

StatusIdle ==
  /\ s_in = [estimate |-> None, actualDuration |-> 0]
  /\ s_out = None

DurationIdle ==
  /\ d_src = [kind |-> "absent", h |-> 0, hz |-> 0, m |-> 0, mz |-> 0]
  /\ d_out = None
  /\ d_threw = FALSE

\* ------------------------------------------------------ SpecDuration
\* k zeros.
Zeros(k) == [i \in 1..k |-> "0"]

\* The number n written with z leading zeros.
Digits(n, z) == Zeros(z) \o NumToStr(n)

\* The upstream answers the model draws: the documented PT{h}H{m}M form for
\* every h, m and every count of leading zeros that fits MaxDigits, the
\* shorter ISO forms, the zero duration, the empty string, text without "PT",
\* text after "PT" that is no duration, a body without a duration and a
\* failed request.
DurationKinds ==
  {"HM", "H", "M", "S", "HMS", "zero", "empty", "text", "junk", "absent",
   "failed"}

DurationSources ==
  { r \in [kind : DurationKinds, h : 0..MaxHour, hz : 0..(MaxDigits - 1),
           m : 0..(Pow10(MaxDigits) - 1), mz : 0..(MaxDigits - 1)] :
      /\ Len(Digits(r.h, r.hz)) <= MaxDigits
      /\ Len(Digits(r.m, r.mz)) <= MaxDigits
      /\ (r.kind \in {"M", "S", "zero", "empty", "text", "junk", "absent",
                      "failed"} => r.h = 0 /\ r.hz = 0)
      /\ (r.kind \in {"H", "zero", "empty", "text", "junk", "absent",
                      "failed"} => r.m = 0 /\ r.mz = 0) }

DurationString(r) ==
  LET hh == Digits(r.h, r.hz)
      mm == Digits(r.m, r.mz)
  IN CASE r.kind = "HM"   -> <<"P", "T">> \o hh \o <<"H">> \o mm \o <<"M">>
       [] r.kind = "H"    -> <<"P", "T">> \o hh \o <<"H">>
       [] r.kind = "M"    -> <<"P", "T">> \o mm \o <<"M">>
       [] r.kind = "S"    -> <<"P", "T">> \o mm \o <<"S">>
       [] r.kind = "HMS"  -> <<"P", "T">> \o hh \o <<"H">> \o mm \o <<"M", "7", "S">>
       [] r.kind = "zero" -> <<"P", "T", "0", "S">>
       [] r.kind = "text" -> <<"T", "w", "o", "H">>
       [] r.kind = "junk" -> <<"P", "T", "x", "2", "H">>
       [] OTHER           -> <<>>

UpstreamDuration(r) ==
  [ok       |-> r.kind # "failed",
   duration |-> IF r.kind \in {"absent", "failed"} THEN None
                ELSE Some(DurationString(r))]

InitDuration ==
  /\ d_src \in DurationSources
  /\ d_out = None
  /\ d_threw = FALSE
  /\ StatusIdle
  /\ FacadeIdle
  /\ ReportsIdle
  /\ MetricsIdle
  /\ ClientsIdle
  /\ ReleasesIdle
  /\ TasksIdle
  /\ MonitorIdle
  /\ LoopIdle

\* One call of getTaskActualDuration against the upstream answer.
D_GetTaskActualDuration ==
  /\ d_out = None /\ ~d_threw
  /\ LET r == DurationOutcome(UpstreamDuration(d_src)) IN
       /\ d_threw' = r.threw
       /\ d_out' = IF r.threw THEN None ELSE Some(r.value)
  /\ UNCHANGED <<d_src, notDurVars>>

NextDuration == D_GetTaskActualDuration

SpecDuration == InitDuration /\ [][NextDuration]_vars

\* ------------------------------------------------------ SpecStatus
\* Half hours in fixed point.
HalfHour == Scale \div 2

\* The estimates the model draws: none, a negative one, zero, and every
\* half hour up to MaxHour.
Estimates == {None} \cup {Some(k * HalfHour) : k \in (-1)..(2 * MaxHour)}

\* The actual durations the model draws: every half hour up to MaxHour and
\* the one above.
Actuals == {k * HalfHour : k \in 0..(2 * MaxHour + 1)}

InitStatus ==
  /\ s_in \in [estimate : Estimates, actualDuration : Actuals]
  /\ s_out = None
  /\ DurationIdle
  /\ FacadeIdle
  /\ ReportsIdle
  /\ MetricsIdle
  /\ ClientsIdle
  /\ ReleasesIdle
  /\ TasksIdle
  /\ MonitorIdle
  /\ LoopIdle

\* One call of getDurationStatus on the arguments.
S_GetDurationStatus ==
  /\ s_out = None
  /\ s_out' = Some(getDurationStatus(s_in.estimate, s_in.actualDuration))
  /\ UNCHANGED <<s_in, notStatusVars>>

NextStatus == S_GetDurationStatus

SpecStatus == InitStatus /\ [][NextStatus]_vars

\* ------------------------------------------------------ SpecMetrics
\* All sequences over S of length at most n.
SeqsUpTo(S, n) == UNION {[1..k -> S] : k \in 0..n}

\* Number(s) for the numeric strings the task tracker sends.
NumberOf(s) ==
  CASE s = "0" -> 0 [] s = "1" -> 1 [] s = "2" -> 2 [] s = "3" -> 3
    [] s = "8" -> 8 [] s = "9" -> 9 [] s = "10" -> 10 [] OTHER -> 0

\* Items of /agile/issues/list as the tracker sends them, before the stage
\* filter adds workflow_stage_id: custom fields cf_8 (time-tracker task) and
\* cf_9 (time-tracker project), type_id and estimate are optional strings.
ItemKinds ==
  { [cf_8 |-> Some("t1"), cf_9 |-> Some("p1"), type_id |-> Some("2"),
     estimate |-> None],
    [cf_8 |-> Some("t1"), cf_9 |-> Some("p1"), type_id |-> Some("3"),
     estimate |-> None],
    [cf_8 |-> Some("t2"), cf_9 |-> Some("p1"), type_id |-> None,
     estimate |-> None],
    [cf_8 |-> Some("t9"), cf_9 |-> Some("p1"), type_id |-> Some("2"),
     estimate |-> None],
    [cf_8 |-> None,       cf_9 |-> Some("p1"), type_id |-> Some("2"),
     estimate |-> None],
    [cf_8 |-> Some("t1"), cf_9 |-> Some(""),   type_id |-> Some("1"),
     estimate |-> None] }

\* The answers to the two stage-filtered requests of getProjectTasks.
StageAnswers ==
  { p \in SeqsUpTo(ItemKinds, MaxTasks) \X SeqsUpTo(ItemKinds, MaxTasks) :
      Len(p[1]) + Len(p[2]) <= MaxTasks }

\* Lines 247-261: one upstream item as a FlowluTask.
MapItem(item, stage) ==
  [cf_8 |-> item.cf_8,
   cf_9 |-> item.cf_9,
   workflow_stage_id |-> NumberOf(stage),
   estimate |-> IF TruthyStr(item.estimate)
                THEN Some(NumberOf(item.estimate[1]) * Scale) ELSE None,
   type_id |-> NumberOf(IF TruthyStr(item.type_id) THEN item.type_id[1] ELSE "1")]

\* FlowluService.getProjectTasks on the two answers: the in-progress items
\* followed by the completed items, each mapped.
\* A variant of the combination that puts the completed tasks first.
getProjectTasksCompletedFirst(inProgress, completed) ==
  [i \in 1..Len(completed) |-> MapItem(completed[i], "10")]
    \o [i \in 1..Len(inProgress) |-> MapItem(inProgress[i], "9")]

getProjectTasks(inProgress, completed) ==
  [i \in 1..Len(inProgress) |-> MapItem(inProgress[i], "9")]
    \o [i \in 1..Len(completed) |-> MapItem(completed[i], "10")]

\* GitLabController.compareTags (lines 151-164) on the commits of the
\* comparison: totalCommits is their number, each commit keeps its short id.
compareTags(commits) ==
  [totalCommits |-> Len(commits),
   commits      |-> [i \in 1..Len(commits) |-> [id |-> commits[i]]]]

\* What the time tracker holds for a task reference.
ClockifyDb(taskRef) ==
  CASE taskRef = "t1" -> [kind |-> "H", h |-> 2, hz |-> 0, m |-> 0, mz |-> 0]
    [] taskRef = "t2" -> [kind |-> "HM", h |-> 1, hz |-> 0, m |-> 5, mz |-> 0]
    [] OTHER          -> [kind |-> "failed", h |-> 0, hz |-> 0, m |-> 0, mz |-> 0]

\* A variant of the tracking-reference test that only asks for presence.
HasRefsDefined(task) == task.cf_8 # None /\ task.cf_9 # None

\* Line 140: task.cf_8 && task.cf_9.
HasRefs(task) == TruthyStr(task.cf_8) /\ TruthyStr(task.cf_9)

\* A variant of the bug test that takes every type id from 2 up as a bug.
IsBugFrom2(task) == task.type_id >= 2

\* Line 146: task.type_id === 2.
IsBug(task) == task.type_id = 2

\* Lines 123-125: projectId ? projects.filter(p => p.id === projectId)
\*                          : projects.
TargetProjects(projects, projectId) ==
  IF TruthyNum(projectId)
  THEN SelectSeq(projects, LAMBDA p : p = projectId[1])
  ELSE projects

\* The ids of the projects the task tracker knows, and the project lists it
\* can return: distinct ids, in ascending order.
ProjectIds == {1, 2}

ProjectLists ==
  { l \in SeqsUpTo(ProjectIds, Cardinality(ProjectIds)) :
      \A i, j \in 1..Len(l) : i < j => l[i] < l[j] }

\* The tally of one received task list in the words of the specification:
\* tasks with both references populated, those of them with type 2, and
\* the time-tracker durations of the two groups.
Populated(o) == o # None /\ o # Some("")

RECURSIVE SumSeq(_)
SumSeq(q) == IF q = <<>> THEN 0 ELSE Head(q) + SumSeq(Tail(q))

\* What getTaskActualDuration returns for each task reference.
TaskRefs == {"t1", "t2", "t9"}
DurationByRef ==
  [r \in TaskRefs |-> getTaskActualDuration(UpstreamDuration(ClockifyDb(r)))]

\* Lines 141-144: the duration awaited for a task with both references.
DurationOf(task) == DurationByRef[task.cf_8[1]]

Tally(tasks) ==
  LET both(t) == Populated(t.cf_8) /\ Populated(t.cf_9)
      bug(t)  == both(t) /\ t.type_id = 2
      feat(t) == both(t) /\ t.type_id # 2
  IN [both |-> Cardinality({i \in 1..Len(tasks) : both(tasks[i])}),
      bugs |-> Cardinality({i \in 1..Len(tasks) : bug(tasks[i])}),
      qa   |-> SumSeq([i \in 1..Len(tasks) |->
                        IF bug(tasks[i]) THEN DurationOf(tasks[i]) ELSE 0]),
      dev  |-> SumSeq([i \in 1..Len(tasks) |->
                        IF feat(tasks[i]) THEN DurationOf(tasks[i]) ELSE 0])]

\* Every task list getProjectTasks can return, with its tally.
TaskListAnswers ==
  { [tasks |-> getProjectTasks(a[1], a[2]),
     tally |-> Tally(getProjectTasks(a[1], a[2]))] : a \in StageAnswers }

InitMetrics ==
  /\ DurationIdle
  /\ StatusIdle
  /\ FacadeIdle
  /\ ReportsIdle
  /\ ClientsIdle
  /\ ReleasesIdle
  /\ TasksIdle
  /\ MonitorIdle
  /\ LoopIdle
  /\ m_pc = "compareTags"
  /\ m_args \in [projectId : {None} \cup {Some(n) : n \in {0} \cup ProjectIds}]
  /\ m_git = [totalCommits |-> 0, upstream |-> 0]
  /\ m_rel = 0
  /\ m_projects = <<>>
  /\ m_target = <<>>
  /\ m_pi = 0
  /\ m_tasks = <<>>
  /\ m_ti = 1
  /\ m_tot = [totalFeatures |-> 0, totalBugs |-> 0,
              totalDevelopmentTime |-> 0, totalQaTime |-> 0]
  /\ m_out = [status |-> "none"]
  /\ m_calls = [projects |-> <<>>, durations |-> 0]
  /\ m_seen = [both |-> 0, bugs |-> 0, qa |-> 0, dev |-> 0]

\* The catch block of calculateMetrics: log and rethrow.
CM_Throw(message) ==
  /\ m_pc' = "failed"
  /\ m_out' = [status |-> "error", message |-> message]

\* Lines 101-104: await compareTags; the host returns n commits or fails.
CM_CompareTags ==
  /\ m_pc = "compareTags"
  /\ \/ \E n \in {0, MaxCommits} :
          /\ m_git' = [totalCommits |-> compareTags([i \in 1..n |-> i]).totalCommits,
                       upstream |-> n]
          /\ m_pc' = "getReleases"
          /\ UNCHANGED m_out
     \/ CM_Throw("Failed to retrieve commits") /\ UNCHANGED m_git
  /\ UNCHANGED <<notMetricVars, m_args, m_rel, m_projects, m_target, m_pi, m_tasks,
                 m_ti, m_tot, m_calls, m_seen>>

\* Lines 107-108: await getReleases; totalReleases = releases.length.
CM_GetReleases ==
  /\ m_pc = "getReleases"
  /\ \/ \E n \in 0..MaxReleases :
          /\ m_rel' = n
          /\ m_pc' = "getAllUsers"
          /\ UNCHANGED m_out
     \/ CM_Throw("Request failed") /\ UNCHANGED m_rel
  /\ UNCHANGED <<notMetricVars, m_args, m_git, m_projects, m_target, m_pi, m_tasks,
                 m_ti, m_tot, m_calls, m_seen>>

\* Line 111: await getAllUsers (the users are only passed on).
CM_GetAllUsers ==
  /\ m_pc = "getAllUsers"
  /\ \/ m_pc' = "getAllProjects" /\ UNCHANGED m_out
     \/ CM_Throw("Flowlu API request failed")
  /\ UNCHANGED <<notMetricVars, m_args, m_git, m_rel, m_projects, m_target, m_pi,
                 m_tasks, m_ti, m_tot, m_calls, m_seen>>

\* Lines 114-129: await getAllProjects, filter, throw when nothing is left.
CM_GetAllProjects ==
  /\ m_pc = "getAllProjects"
  /\ \/ \E projects \in ProjectLists :
          LET target == TargetProjects(projects, m_args.projectId) IN
            /\ m_projects' = projects
            /\ m_target' = target
            /\ IF Len(target) = 0
               THEN CM_Throw("Project not found")
               ELSE m_pc' = "loop" /\ UNCHANGED m_out
     \/ CM_Throw("Flowlu API request failed") /\ UNCHANGED <<m_projects, m_target>>
  /\ UNCHANGED <<notMetricVars, m_args, m_git, m_rel, m_pi, m_tasks, m_ti, m_tot,
                 m_calls, m_seen>>

\* Lines 132-137: the next project of the outer loop, await getProjectTasks.
CM_GetProjectTasks ==
  /\ m_pc = "loop"
  /\ m_ti > Len(m_tasks)
  /\ m_pi < Len(m_target)
  /\ m_pi' = m_pi + 1
  /\ m_calls' = [m_calls EXCEPT !.projects = Append(@, m_target[m_pi + 1])]
  /\ \/ \E a \in TaskListAnswers :
          LET tasks == a.tasks
              t     == a.tally
          IN /\ m_tasks' = tasks
             /\ m_ti' = 1
             /\ m_seen' = [both |-> m_seen.both + t.both,
                           bugs |-> m_seen.bugs + t.bugs,
                           qa   |-> m_seen.qa + t.qa,
                           dev  |-> m_seen.dev + t.dev]
             /\ UNCHANGED <<m_pc, m_out>>
     \/ CM_Throw("Flowlu API request failed") /\ UNCHANGED <<m_tasks, m_ti, m_seen>>
  /\ UNCHANGED <<notMetricVars, m_args, m_git, m_rel, m_projects, m_target, m_tot>>

\* Lines 139-155: one iteration of the inner loop.  A task with both
\* references awaits its duration and is added to the bug or the feature
\* bucket; any other task is passed over.
CM_Task ==
  /\ m_pc = "loop"
  /\ m_ti <= Len(m_tasks)
  /\ LET task == m_tasks[m_ti] IN
       IF HasRefs(task)
       THEN LET duration == DurationOf(task)
            IN /\ m_calls' = [m_calls EXCEPT !.durations = @ + 1]
               /\ m_tot' =
                    IF IsBug(task)
                    THEN [m_tot EXCEPT !.totalBugs = @ + 1,
                                       !.totalQaTime = @ + duration]
                    ELSE [m_tot EXCEPT !.totalFeatures = @ + 1,
                                       !.totalDevelopmentTime = @ + duration]
       ELSE UNCHANGED <<m_calls, m_tot>>
  /\ m_ti' = m_ti + 1
  /\ UNCHANGED <<notMetricVars, m_pc, m_args, m_git, m_rel, m_projects, m_target,
                 m_pi, m_tasks, m_out, m_seen>>

\* Lines 158-166: the metrics object.
CM_Return ==
  /\ m_pc = "loop"
  /\ m_ti > Len(m_tasks)
  /\ m_pi = Len(m_target)
  /\ m_pc' = "done"
  /\ m_out' = [status |-> "ok",
               totalCommits |-> m_git.totalCommits,
               totalFeatures |-> m_tot.totalFeatures,
               totalBugs |-> m_tot.totalBugs,
               totalDevelopmentTime |-> m_tot.totalDevelopmentTime,
               totalQaTime |-> m_tot.totalQaTime,
               totalReleases |-> m_rel]
  /\ UNCHANGED <<notMetricVars, m_args, m_git, m_rel, m_projects, m_target, m_pi,
                 m_tasks, m_ti, m_tot, m_calls, m_seen>>

NextMetrics ==
  \/ CM_CompareTags
  \/ CM_GetReleases
  \/ CM_GetAllUsers
  \/ CM_GetAllProjects
  \/ CM_GetProjectTasks
  \/ CM_Task
  \/ CM_Return

SpecMetrics == InitMetrics /\ [][NextMetrics]_vars

\* ------------------------------------------------------ SpecClients
\* A variant of the rate-limit sleep that sleeps for the time already
\* elapsed instead of the time that remains.
RateLimitWaitElapsed(t, last) ==
  IF t - last < RATE_LIMIT_DELAY THEN t - last ELSE 0

\* Lines 70-74 of FlowluService.makeRequest: how long the call sleeps
\* before it sends, given Date.now() and lastRequestTime.
RateLimitWait(t, last) ==
  IF t - last < RATE_LIMIT_DELAY THEN RATE_LIMIT_DELAY - (t - last) ELSE 0

\* A variant of the retry test that allows one retry more.
ShouldRetryOnceMore(status, retryCount) ==
  status = 429 /\ retryCount <= MAX_RETRIES

\* A variant of the retry test that counts the first attempt as a retry.
ShouldRetryFewer(status, retryCount) ==
  status = 429 /\ retryCount + 1 < MAX_RETRIES

\* Line 91: flowluError.response?.status === 429 && retryCount < MAX_RETRIES.
ShouldRetry(status, retryCount) ==
  status = 429 /\ retryCount < MAX_RETRIES

\* A variant of the retry sleep that uses the rate-limit delay.
RetryDelayShort(retryCount) == RATE_LIMIT_DELAY

\* Line 97: the sleep before retry number retryCount + 1.
RetryDelayFor(retryCount) == RETRY_DELAY

\* The body the upstream sends with its answer to the k-th HTTP request of
\* call c.
ResponseBody(c, k) == <<"data", c, k>>

\* A variant of the return statement that returns the first answer's body.
ResponseDataFirst(c, k) == ResponseBody(c, 1)

\* Line 88 (FlowluService) and line 29 (ClockifyService): return
\* response.data.
ResponseData(c, k) == ResponseBody(c, k)

\* A variant of the timestamp update that also keeps the answer on the
\* instance.
FlowluAfterSuccessCaching(inst, t) ==
  [inst EXCEPT !.lastRequestTime = t, !.config = "lastResponse"]

\* Line 87: this.lastRequestTime = Date.now().
FlowluAfterSuccess(inst, t) == [inst EXCEPT !.lastRequestTime = t]

\* A variant of the catch block that stamps the failed attempt.
FlowluAfterFailureStamped(inst, t) == [inst EXCEPT !.lastRequestTime = t]

\* Lines 89-105: the catch block assigns no field of the instance.
FlowluAfterFailure(inst, t) == inst

\* Lines 100-104 and 36-40: the wrapped error a failed request raises.
WrappedError(prefix, status) ==
  [status |-> "error", message |-> <<prefix, status>>]

InitClients ==
  /\ DurationIdle
  /\ StatusIdle
  /\ FacadeIdle
  /\ ReportsIdle
  /\ MetricsIdle
  /\ ClientsIdle
  /\ ReleasesIdle
  /\ TasksIdle
  /\ MonitorIdle
  /\ LoopIdle

\* Lines 76-84: axios.get is called; the request is on its way.
Send(c, rec) ==
  /\ calls' = [calls EXCEPT ![c] =
                 [rec EXCEPT !.pc = "inflight", !.sent = @ + 1]]
  /\ lastSent' = Some(now)

\* Lines 67-84: makeRequest runs up to its first await: the rate-limit
\* sleep when the last successful request is too recent, else the request.
EnterMakeRequest(c, rec) ==
  LET wait == RateLimitWait(now, flowlu.lastRequestTime) IN
    IF wait > 0
    THEN /\ calls' = [calls EXCEPT ![c] =
                        [rec EXCEPT !.pc = "rateSleep", !.wakeAt = now + wait]]
         /\ UNCHANGED lastSent
    ELSE Send(c, rec)

\* A caller invokes makeRequest(endpoint) on the task-tracker client.
F_Begin(c) ==
  /\ calls[c].pc = "idle"
  /\ EnterMakeRequest(c, [calls[c] EXCEPT
        !.kind = "flowlu",
        !.after = {d \in Calls : calls[d].kind = "flowlu" /\ calls[d].pc = "done"}])
  /\ UNCHANGED <<notClientVars, now, flowlu, clockify>>

\* Line 73: the rate-limit timer fires (no earlier than asked) and the
\* request is sent.
F_WakeRateLimit(c) ==
  /\ calls[c].pc = "rateSleep"
  /\ now >= calls[c].wakeAt
  /\ Send(c, calls[c])
  /\ UNCHANGED <<notClientVars, now, flowlu, clockify>>

\* Lines 80-105: the upstream answers; on success the timestamp is written
\* and the body returned, on 429 with retries left the call sleeps, and any
\* other failure is wrapped and thrown.
F_Respond(c) ==
  /\ calls[c].pc = "inflight"
  /\ calls[c].kind = "flowlu"
  /\ \E status \in {200, 429, 500} :
       LET rec == [calls[c] EXCEPT !.status = status, !.recvAt = now,
                                   !.n429 = IF status = 429 THEN @ + 1 ELSE @] IN
         IF status = 200
         THEN /\ flowlu' = FlowluAfterSuccess(flowlu, now)
              /\ calls' = [calls EXCEPT ![c] =
                   [rec EXCEPT !.pc = "done",
                               !.out = [status |-> "ok",
                                        value |-> ResponseData(c, rec.sent)]]]
         ELSE /\ flowlu' = FlowluAfterFailure(flowlu, now)
              /\ IF ShouldRetry(status, rec.retryCount)
                 THEN calls' = [calls EXCEPT ![c] =
                        [rec EXCEPT !.pc = "retrySleep",
                                    !.wakeAt = now + RetryDelayFor(rec.retryCount)]]
                 ELSE calls' = [calls EXCEPT ![c] =
                        [rec EXCEPT !.pc = "failed",
                                    !.out = WrappedError("Flowlu API request failed: ",
                                                         status)]]
  /\ UNCHANGED <<notClientVars, now, clockify, lastSent>>

\* Line 98: the retry timer fires and makeRequest(endpoint, retryCount + 1)
\* starts.
F_WakeRetry(c) ==
  /\ calls[c].pc = "retrySleep"
  /\ now >= calls[c].wakeAt
  /\ EnterMakeRequest(c, [calls[c] EXCEPT !.retryCount = @ + 1])
  /\ UNCHANGED <<notClientVars, now, flowlu, clockify>>

\* ClockifyService.makeRequest, lines 21-27: the request is sent at once.
K_Begin(c) ==
  /\ calls[c].pc = "idle"
  /\ calls' = [calls EXCEPT ![c] =
       [@ EXCEPT !.kind = "clockify", !.pc = "inflight", !.sent = 1]]
  /\ UNCHANGED <<notClientVars, now, flowlu, clockify, lastSent>>

\* ClockifyService.makeRequest, lines 29-43: the body, or the wrapped error.
K_Respond(c) ==
  /\ calls[c].pc = "inflight"
  /\ calls[c].kind = "clockify"
  /\ \E status \in {200, 500} :
       LET rec == [calls[c] EXCEPT !.status = status, !.recvAt = now] IN
         calls' = [calls EXCEPT ![c] =
           IF status = 200
           THEN [rec EXCEPT !.pc = "done",
                            !.out = [status |-> "ok",
                                     value |-> ResponseData(c, rec.sent)]]
           ELSE [rec EXCEPT !.pc = "failed",
                            !.out = WrappedError("Clockify API request failed: ",
                                                 status)]]
  /\ UNCHANGED <<notClientVars, now, flowlu, clockify, lastSent>>

\* Time passes.
Tick ==
  /\ now < StartTime + MaxTicks * TickMs
  /\ now' = now + TickMs
  /\ UNCHANGED <<notClientVars, flowlu, clockify, calls, lastSent>>

NextClients ==
  \/ \E c \in Calls : F_Begin(c)
  \/ \E c \in Calls : F_WakeRateLimit(c)
  \/ \E c \in Calls : F_Respond(c)
  \/ \E c \in Calls : F_WakeRetry(c)
  \/ \E c \in Calls : K_Begin(c)
  \/ \E c \in Calls : K_Respond(c)
  \/ Tick

SpecClients == InitClients /\ [][NextClients]_vars

\* ------------------------------------------------------ SpecReports
\* The items the tracker sends for the reports: with or without the
\* time-tracker task, of type bug or another, without an estimate or with
\* one of 0, 1, 8 or 9 hours.
ReportItems ==
  { [cf_8 |-> c, cf_9 |-> Some("p1"), type_id |-> t, estimate |-> e] :
      c \in {Some("t1"), None}, t \in {Some("2"), Some("3")},
      e \in {None, Some("0"), Some("1"), Some("8"), Some("9")} }

\* The task lists getProjectTasks can return for them: the first k items
\* answered for stage 9 and the others for stage 10.
ReportTaskLists ==
  { getProjectTasks(SubSeq(a[1], 1, a[2]), SubSeq(a[1], a[2] + 1, Len(a[1]))) :
      a \in { p \in SeqsUpTo(ReportItems, MaxTasks) \X (0..MaxTasks) :
                p[2] <= Len(p[1]) } }

\* The duration added for a task with both references, 0 for the others.
Measured(task) == IF HasRefs(task) THEN DurationOf(task) ELSE 0

\* The sum of the durations awaited for the tasks of a list.
SumMeasured(tasks) == SumSeq([i \in 1..Len(tasks) |-> Measured(tasks[i])])

\* A variant of the average that divides whatever the count.
AverageUnguarded(total, count) == [num |-> total, den |-> count]

\* total / count when count > 0, else 0: a quotient kept as a fraction.
Average(total, count) ==
  IF count > 0 THEN [num |-> total, den |-> count] ELSE [num |-> 0, den |-> 1]

\* A variant of the in-progress test that also takes the completed tasks.
InProgressOrLater(task) == task.workflow_stage_id >= 9

InProgress(task) == task.workflow_stage_id = 9
Completed(task) == task.workflow_stage_id = 10

\* A variant of the critical test that counts an estimate of 8 hours.
IsCriticalFrom8(task) ==
  TruthyNum(task.estimate) /\ task.estimate[1] >= 8 * Scale

\* task.estimate && task.estimate > 8.
IsCritical(task) == TruthyNum(task.estimate) /\ task.estimate[1] > 8 * Scale

\* The task has both references and getDurationStatus says "Overdue".
IsOverdue(task) ==
  /\ HasRefs(task)
  /\ getDurationStatus(task.estimate, DurationOf(task)) = "Overdue"

\* DashboardService.getDashboardMetrics on the task list: taskMetrics,
\* bugMetrics and the totals of releaseMetrics.
getDashboardMetrics(tasks) ==
  LET bugTasks     == SelectSeq(tasks, IsBug)
      features     == SelectSeq(tasks, LAMBDA t : ~IsBug(t))
      completed    == Len(SelectSeq(tasks, Completed))
      resolvedBugs == Len(SelectSeq(bugTasks, Completed))
      totalCompletionTime == SumMeasured(SelectSeq(features, Completed))
      totalResolutionTime == SumMeasured(SelectSeq(bugTasks, Completed))
  IN [taskMetrics |->
        [totalTasks |-> Len(tasks),
         inProgress |-> Len(SelectSeq(tasks, InProgress)),
         completed  |-> completed,
         overdue    |-> Len(SelectSeq(tasks, IsOverdue)),
         averageCompletionTime |-> Average(totalCompletionTime, completed)],
      bugMetrics |->
        [totalBugs    |-> Len(bugTasks),
         criticalBugs |-> Len(SelectSeq(bugTasks, IsCritical)),
         resolvedBugs |-> resolvedBugs,
         averageResolutionTime |-> Average(totalResolutionTime, resolvedBugs)],
      releaseMetrics |->
        [totalFeatures   |-> Len(features),
         totalBugs       |-> Len(bugTasks),
         developmentTime |-> SumMeasured(features),
         qaTime          |-> SumMeasured(bugTasks)]]

\* DashboardService.getTaskMetrics on the task list of the project.
getTaskMetrics(tasks) ==
  LET completed == Len(SelectSeq(tasks, Completed))
      totalCompletionTime == SumMeasured(SelectSeq(tasks, Completed))
  IN [totalTasks |-> Len(tasks),
      inProgress |-> Len(SelectSeq(tasks, InProgress)),
      completed  |-> completed,
      overdue    |-> Len(SelectSeq(tasks, IsOverdue)),
      averageCompletionTime |-> Average(totalCompletionTime, completed)]

\* DashboardService.getBugMetrics on the task list of the project.
getBugMetrics(tasks) ==
  LET bugTasks     == SelectSeq(tasks, IsBug)
      resolvedBugs == Len(SelectSeq(bugTasks, Completed))
      totalResolutionTime == SumMeasured(SelectSeq(bugTasks, Completed))
  IN [totalBugs    |-> Len(bugTasks),
      criticalBugs |-> Len(SelectSeq(bugTasks, IsCritical)),
      resolvedBugs |-> resolvedBugs,
      averageResolutionTime |-> Average(totalResolutionTime, resolvedBugs)]

InitReports ==
  /\ p_tasks \in ReportTaskLists
  /\ p_out = [dashboard |-> None, task |-> None, bug |-> None]
  /\ DurationIdle
  /\ StatusIdle
  /\ FacadeIdle
  /\ MetricsIdle
  /\ ClientsIdle
  /\ ReleasesIdle
  /\ TasksIdle
  /\ MonitorIdle
  /\ LoopIdle

\* One call of each operation on the task list; the time tracker answers
\* as ClockifyDb says.
P_GetDashboardMetrics ==
  /\ p_out.dashboard = None
  /\ p_out' = [p_out EXCEPT !.dashboard = Some(getDashboardMetrics(p_tasks))]
  /\ UNCHANGED <<p_tasks, notReportVars>>

P_GetTaskMetrics ==
  /\ p_out.task = None
  /\ p_out' = [p_out EXCEPT !.task = Some(getTaskMetrics(p_tasks))]
  /\ UNCHANGED <<p_tasks, notReportVars>>

P_GetBugMetrics ==
  /\ p_out.bug = None
  /\ p_out' = [p_out EXCEPT !.bug = Some(getBugMetrics(p_tasks))]
  /\ UNCHANGED <<p_tasks, notReportVars>>

NextReports ==
  \/ P_GetDashboardMetrics
  \/ P_GetTaskMetrics
  \/ P_GetBugMetrics

SpecReports == InitReports /\ [][NextReports]_vars

\* ------------------------------------------------------ SpecFacade
\* The values a query parameter can carry; None is a missing parameter.
TagParams == {None, Some("v1")}
ProjectIdParams == {None, Some(""), Some("1"), Some("3")}
SearchParams == {None, Some(""), Some("app")}

\* Bodies of POST /gitlab/compare-tags: the well-formed one, and bodies
\* with a field missing or a gitlabUrl that is no URL.
Urls == {"https://git"}

ValidBody ==
  [gitlabUrl |-> Some("https://git"), projectId |-> Some("7"),
   privateToken |-> Some("k"), olderTag |-> Some("v1"), newerTag |-> Some("v2")]

EmptyBody ==
  [gitlabUrl |-> None, projectId |-> None, privateToken |-> None,
   olderTag |-> None, newerTag |-> None]

Bodies ==
  {ValidBody, EmptyBody,
   [ValidBody EXCEPT !.gitlabUrl = Some("git")],
   [ValidBody EXCEPT !.gitlabUrl = None],
   [ValidBody EXCEPT !.privateToken = None],
   [ValidBody EXCEPT !.olderTag = None],
   [ValidBody EXCEPT !.newerTag = None]}

\* The requests the model draws, by route.
Requests ==
  { [NoRequest EXCEPT !.endpoint = e, !.olderTag = o, !.newerTag = n,
                      !.projectId = p] :
      e \in {"metrics", "release-metrics"}, o \in TagParams, n \in TagParams,
      p \in ProjectIdParams }
  \cup { [NoRequest EXCEPT !.endpoint = e, !.projectId = p] :
      e \in {"task-metrics", "bug-metrics", "project-releases", "releases"},
      p \in ProjectIdParams }
  \cup { [NoRequest EXCEPT !.endpoint = "projects/search", !.searchTerm = t] :
      t \in SearchParams }
  \cup { [NoRequest EXCEPT !.endpoint = "dashboard"] }
  \cup { [NoRequest EXCEPT !.endpoint = "compare-tags", !.body = Some(b)] :
      b \in Bodies }

\* MetricsQuerySchema.parse(req.query): the three parameters must be
\* strings; projectId is transformed to a number, or undefined when empty.
MetricsQuerySchema(q) ==
  [ok        |-> q.olderTag # None /\ q.newerTag # None /\ q.projectId # None,
   projectId |-> IF TruthyStr(q.projectId) THEN Some(NumberOf(q.projectId[1]))
                 ELSE None]

\* ProjectSearchSchema.parse(req.query): searchTerm is a string of length
\* at least 1.
ProjectSearchSchema(q) == [ok |-> q.searchTerm # None /\ q.searchTerm # Some("")]

\* CompareTagsRequestSchema.parse(req.body).
CompareTagsRequestSchema(b) ==
  [ok |-> /\ b.gitlabUrl # None /\ b.gitlabUrl[1] \in Urls
          /\ b.projectId # None /\ b.privateToken # None
          /\ b.olderTag # None /\ b.newerTag # None]

\* An error object: whether it is a ZodError, and its message.
ZodError == [zod |-> TRUE, message |-> "ZodError"]
NewError(message) == [zod |-> FALSE, message |-> message]

\* The error text each dashboard handler answers with.
ErrorLabel(endpoint) ==
  CASE endpoint = "projects/search"  -> "Failed to search projects"
    [] endpoint = "metrics"          -> "Failed to calculate metrics"
    [] endpoint = "dashboard"        -> "Failed to get dashboard metrics"
    [] endpoint = "release-metrics"  -> "Failed to get release metrics"
    [] endpoint = "task-metrics"     -> "Failed to get task metrics"
    [] endpoint = "bug-metrics"      -> "Failed to get bug metrics"
    [] endpoint = "project-releases" -> "Failed to get project releases"
    [] OTHER                         -> "Failed to get releases"

\* res.json(result).
Ok200(result) ==
  [status |-> 200, error |-> None, details |-> None, result |-> Some(result)]

\* A variant of the answer to a missing projectId that uses status 500.
ProjectIdRequiredAs500 ==
  [status |-> 500, error |-> Some("Project ID is required"),
   details |-> Some([kind |-> "message", text |-> "Please provide a project ID"]),
   result |-> None]

\* The explicit check of the four handlers that require projectId.
ProjectIdRequired ==
  [status |-> 400, error |-> Some("Project ID is required"),
   details |-> Some([kind |-> "message", text |-> "Please provide a project ID"]),
   result |-> None]

\* A variant of the catch block of POST /compare-tags without the
\* ZodError branch.
CompareTagsCatchAll(err) ==
  [status |-> 500, error |-> Some(err.message), details |-> None,
   result |-> None]

\* The catch block of POST /compare-tags: 400 with the list of issues for a
\* ZodError, 500 with the message otherwise.
CompareTagsCatch(err) ==
  IF err.zod
  THEN [status |-> 400, error |-> Some("Invalid request data"),
        details |-> Some([kind |-> "issues", text |-> err.message]),
        result |-> None]
  ELSE [status |-> 500, error |-> Some(err.message), details |-> None,
        result |-> None]

\* The catch block of the dashboard handlers: 500 with the handler's text
\* and the message of the error, whatever the error is.
DashboardCatch(endpoint, err) ==
  [status |-> 500, error |-> Some(ErrorLabel(endpoint)),
   details |-> Some([kind |-> "message", text |-> err.message]),
   result |-> None]

CatchResponse(endpoint, err) ==
  IF endpoint = "compare-tags" THEN CompareTagsCatch(err)
  ELSE DashboardCatch(endpoint, err)

\* The provider calls each operation makes before it has seen any answer,
\* in the order of its awaits.
\* A variant of the scripts in which calculateMetrics asks the task tracker
\* for the users and the projects before it compares the tags.
ScriptTrackerFirst(op) ==
  CASE op = "searchProjects" -> <<"flowlu.search">>
    [] op \in {"calculateMetrics", "getReleaseMetrics"} ->
         <<"flowlu.users", "gitlab.tag.older", "gitlab.tag.newer",
           "gitlab.compare", "gitlab.tags", "flowlu.projects">>
    [] op = "getDashboardMetrics" -> <<"tasks&tags">>
    [] op \in {"getTaskMetrics", "getBugMetrics"} ->
         <<"flowlu.users", "flowlu.projects">>
    [] op = "getProjectReleases" ->
         <<"gitlab.tags", "flowlu.users", "flowlu.tasks">>
    [] op = "getReleases" -> <<"gitlab.tags">>
    [] OTHER -> <<"gitlab.tag.older", "gitlab.tag.newer", "gitlab.compare">>

Script(op) ==
  CASE op = "searchProjects" -> <<"flowlu.search">>
    [] op \in {"calculateMetrics", "getReleaseMetrics"} ->
         <<"gitlab.tag.older", "gitlab.tag.newer", "gitlab.compare",
           "gitlab.tags", "flowlu.users", "flowlu.projects">>
    [] op = "getDashboardMetrics" -> <<"tasks&tags">>
    [] op \in {"getTaskMetrics", "getBugMetrics"} ->
         <<"flowlu.users", "flowlu.projects">>
    [] op = "getProjectReleases" ->
         <<"gitlab.tags", "flowlu.users", "flowlu.tasks">>
    [] op = "getReleases" -> <<"gitlab.tags">>
    [] OTHER -> <<"gitlab.tag.older", "gitlab.tag.newer", "gitlab.compare">>

Invoke(op, projectId) ==
  [respond |-> None,
   invoke  |-> [NoService EXCEPT !.op = op, !.projectId = projectId,
                                 !.todo = Script(op)]]

Respond(response) == [respond |-> Some(response), invoke |-> NoService]

\* The part of each handler that runs before its first await: the
\* validation of the request, then the invocation of the operation.
HandlerStart(req) ==
  LET e == req.endpoint IN
  CASE e = "projects/search" ->
         IF ProjectSearchSchema(req).ok THEN Invoke("searchProjects", None)
         ELSE Respond(CatchResponse(e, ZodError))
    [] e = "metrics" ->
         IF MetricsQuerySchema(req).ok
         THEN Invoke("calculateMetrics", MetricsQuerySchema(req).projectId)
         ELSE Respond(CatchResponse(e, ZodError))
    [] e = "release-metrics" ->
         IF MetricsQuerySchema(req).ok
         THEN Invoke("getReleaseMetrics", MetricsQuerySchema(req).projectId)
         ELSE Respond(CatchResponse(e, ZodError))
    [] e = "dashboard" -> Invoke("getDashboardMetrics", None)
    [] e = "task-metrics" ->
         IF ~TruthyStr(req.projectId) THEN Respond(ProjectIdRequired)
         ELSE Invoke("getTaskMetrics", Some(NumberOf(req.projectId[1])))
    [] e = "bug-metrics" ->
         IF ~TruthyStr(req.projectId) THEN Respond(ProjectIdRequired)
         ELSE Invoke("getBugMetrics", Some(NumberOf(req.projectId[1])))
    [] e = "project-releases" ->
         IF ~TruthyStr(req.projectId) THEN Respond(ProjectIdRequired)
         ELSE Invoke("getProjectReleases", Some(NumberOf(req.projectId[1])))
    [] e = "releases" ->
         IF ~TruthyStr(req.projectId) THEN Respond(ProjectIdRequired)
         ELSE Invoke("getReleases", None)
    [] OTHER ->
         IF CompareTagsRequestSchema(req.body[1]).ok
         THEN Invoke("compareTags", None)
         ELSE Respond(CatchResponse(e, ZodError))

\* The answers of the source-control host to a tag lookup: the tag with its
\* commit, a tag without a commit id, or a failed request.
TagAnswers == {"ok", "nocommit", "fail"}

\* Its answers to a comparison: a failed request, or a body with the two
\* flags.
CompareAnswers ==
  { a \in [ok : BOOLEAN, compare_same_ref : BOOLEAN, compare_timeout : BOOLEAN] :
      ~a.ok => ~a.compare_same_ref /\ ~a.compare_timeout }

\* Its answers to a branch lookup: branches, no branch, a failed request.
BranchAnswers == {"ok", "empty", "fail"}

Returned == [threw |-> FALSE, error |-> NewError("")]
Thrown(message) == [threw |-> TRUE, error |-> NewError(message)]

\* GitLabController.getTagData: the failed request is wrapped and rethrown.
getTagData(a) ==
  IF a = "fail" THEN Thrown("Failed to retrieve tag data") ELSE Returned

\* A variant of getCommitsBetweenTags that looks at the timeout flag first.
getCommitsBetweenTagsTimeoutFirst(a) ==
  IF ~a.ok THEN Thrown("Failed to retrieve commits")
  ELSE IF a.compare_timeout THEN Thrown("Comparison timed out")
  ELSE IF a.compare_same_ref THEN Thrown("Cannot compare the same reference")
  ELSE Returned

\* GitLabController.getCommitsBetweenTags: the two flags are tested in this
\* order; the errors thrown for them carry no response and pass the catch
\* block unchanged, the failed request is wrapped.
getCommitsBetweenTags(a) ==
  IF ~a.ok THEN Thrown("Failed to retrieve commits")
  ELSE IF a.compare_same_ref THEN Thrown("Cannot compare the same reference")
  ELSE IF a.compare_timeout THEN Thrown("Comparison timed out")
  ELSE Returned

\* A variant of getReleases that returns no releases when the request fails.
getReleasesEmptyOnFailure(a) == Returned

\* GitLabController.getReleases: the error of a failed request is rethrown
\* as it is.
getReleases(a) == IF a = "fail" THEN Thrown("Request failed") ELSE Returned

\* FlowluService.makeRequest, lines 100-104: the failed request is wrapped
\* and rethrown; its callers rethrow.
FlowluRequest(a) ==
  IF a = "fail" THEN Thrown("Flowlu API request failed") ELSE Returned

\* A variant of the project lookup that takes the first project when none
\* has the id.
FindProjectOrFirst(projects, projectId) == projects # <<>>

\* getTaskMetrics and getBugMetrics: projects.find(p => p.id === projectId)
\* finds a project.
FindProject(projects, projectId) ==
  \E i \in 1..Len(projects) : projects[i] = projectId

\* The try block of getTagBranchInfo on the answers to the tag lookup and to
\* the branch lookup: the requests it makes, whether it threw, what it
\* returned.
BranchInfoTry(tag, branches) ==
  CASE tag = "fail" ->
         [calls |-> <<"gitlab.tagInfo">>, threw |-> TRUE,
          branch |-> "", commitId |-> ""]
    [] tag = "nocommit" ->
         [calls |-> <<"gitlab.tagInfo">>, threw |-> FALSE,
          branch |-> "unknown", commitId |-> "unknown"]
    [] OTHER ->
         [calls |-> <<"gitlab.tagInfo", "gitlab.branches">>,
          threw |-> branches = "fail",
          branch |-> CASE branches = "ok" -> "main"
                       [] branches = "empty" -> "unknown"
                       [] OTHER -> "",
          commitId |-> IF branches = "fail" THEN "" ELSE "c1"]

\* A variant of the catch block of getTagBranchInfo that rethrows.
BranchInfoCatchRethrow(t) == t

\* The catch block of getTagBranchInfo.
BranchInfoCatch(t) ==
  [t EXCEPT !.threw = FALSE, !.branch = "unknown", !.commitId = "unknown"]

\* GitLabController.getTagBranchInfo.
getTagBranchInfo(tag, branches) ==
  LET t == BranchInfoTry(tag, branches) IN
    IF t.threw THEN BranchInfoCatch(t) ELSE t

InitFacade ==
  /\ r_req \in Requests
  /\ r_pc = "received"
  /\ r_svc = NoService
  /\ r_log = <<>>
  /\ r_res = <<>>
  /\ DurationIdle
  /\ StatusIdle
  /\ ReportsIdle
  /\ MetricsIdle
  /\ ClientsIdle
  /\ ReleasesIdle
  /\ TasksIdle
  /\ MonitorIdle
  /\ LoopIdle

\* The handler runs up to its first await, or to the response it sends
\* when the request does not pass its validation.
R_Handler ==
  /\ r_pc = "received"
  /\ LET h == HandlerStart(r_req) IN
       IF h.respond # None
       THEN /\ r_res' = Append(r_res, h.respond[1])
            /\ r_pc' = "responded"
            /\ UNCHANGED r_svc
       ELSE /\ r_svc' = h.invoke
            /\ r_pc' = "service"
            /\ UNCHANGED r_res
  /\ UNCHANGED <<r_req, r_log, notFacadeVars>>

\* The operation throws: every operation rethrows to the handler, whose
\* catch block sends the response.
Fail(err) ==
  /\ r_res' = Append(r_res, CatchResponse(r_req.endpoint, err))
  /\ r_pc' = "responded"
  /\ UNCHANGED r_svc

\* The operation goes on to its next await.
Continue(svc) ==
  /\ r_svc' = svc
  /\ UNCHANGED <<r_res, r_pc>>

Awaiting(callNames) ==
  /\ r_pc = "service"
  /\ r_svc.todo # <<>>
  /\ Head(r_svc.todo) \in callNames

\* One entry of the log of provider calls: the call, whether the HTTP
\* request succeeded, and what the answer carried (the two flags of a
\* comparison, the ids of a project list).
LogEntry(call, ok, info) == [call |-> call, ok |-> ok, info |-> info]

Logged(call, ok, info) == r_log' = Append(r_log, LogEntry(call, ok, info))

Repeat(n, x) == [i \in 1..n |-> x]

\* An awaited request to the source-control host is answered.
R_Gitlab ==
  /\ Awaiting({"gitlab.tag.older", "gitlab.tag.newer", "gitlab.compare",
               "gitlab.tags", "gitlab.branchInfo"})
  /\ LET call == Head(r_svc.todo)
         rest == Tail(r_svc.todo)
     IN
     CASE call \in {"gitlab.tag.older", "gitlab.tag.newer"} ->
            \E a \in TagAnswers :
              LET missing == r_svc.missingCommit \/ a = "nocommit" IN
              /\ Logged(call, a # "fail", <<>>)
              /\ IF getTagData(a).threw THEN Fail(getTagData(a).error)
                 ELSE IF call = "gitlab.tag.newer" /\ missing
                 THEN Fail(NewError("Failed to retrieve tag information"))
                 ELSE Continue([r_svc EXCEPT !.todo = rest,
                                             !.missingCommit = missing])
       [] call = "gitlab.compare" ->
            \E a \in CompareAnswers :
              /\ Logged(call, a.ok, <<a.compare_same_ref, a.compare_timeout>>)
              /\ IF getCommitsBetweenTags(a).threw
                 THEN Fail(getCommitsBetweenTags(a).error)
                 ELSE Continue([r_svc EXCEPT !.todo = rest])
       [] call = "gitlab.tags" ->
            \E a \in {"fail"} \cup {"ok"}, n \in 0..MaxReleases :
              /\ a = "fail" => n = 0
              /\ Logged(call, a # "fail", <<>>)
              /\ IF getReleases(a).threw THEN Fail(getReleases(a).error)
                 ELSE Continue([r_svc EXCEPT !.todo = rest, !.releases = n])
       [] OTHER ->
            \E tag \in TagAnswers, br \in BranchAnswers :
              LET info == getTagBranchInfo(tag, br) IN
              /\ tag # "ok" => br = "ok"
              /\ r_log' = r_log \o
                   [i \in 1..Len(info.calls) |->
                      LogEntry(info.calls[i],
                               IF i = 1 THEN tag # "fail" ELSE br # "fail",
                               <<>>)]
              /\ IF info.threw THEN Fail(NewError("Request failed"))
                 ELSE Continue([r_svc EXCEPT
                        !.todo = rest,
                        !.branches = Append(r_svc.branches,
                          [tag |-> tag, branches |-> br,
                           branch |-> info.branch])])
  /\ UNCHANGED <<r_req, notFacadeVars>>

\* An awaited request to the task tracker is answered.
R_Flowlu ==
  /\ Awaiting({"flowlu.search", "flowlu.users", "flowlu.projects",
               "flowlu.tasks"})
  /\ LET call == Head(r_svc.todo)
         rest == Tail(r_svc.todo)
         op   == r_svc.op
     IN
     \E a \in {"ok", "fail"}, projects \in ProjectLists :
       /\ (a = "fail" \/ call # "flowlu.projects") => projects = <<>>
       /\ Logged(call, a = "ok", projects)
       /\ IF FlowluRequest(a).threw THEN Fail(FlowluRequest(a).error)
          ELSE
          CASE call = "flowlu.projects" ->
                 IF op \in {"calculateMetrics", "getReleaseMetrics"}
                 THEN LET target == TargetProjects(projects, r_svc.projectId)
                      IN IF target = <<>>
                         THEN Fail(NewError("Project with ID not found"))
                         ELSE Continue([r_svc EXCEPT !.todo =
                                rest \o Repeat(Len(target), "flowlu.tasks")])
                 ELSE IF ~FindProject(projects, r_svc.projectId[1])
                      THEN Fail(NewError("Project with ID not found"))
                      ELSE Continue([r_svc EXCEPT !.todo =
                             rest \o <<"flowlu.tasks">>])
            [] call = "flowlu.tasks" ->
                 IF op = "getProjectReleases"
                 THEN Continue([r_svc EXCEPT !.todo =
                        rest \o Repeat(r_svc.releases, "gitlab.branchInfo")])
                 ELSE \E n \in 0..MaxTasks :
                        Continue([r_svc EXCEPT !.todo =
                          Repeat(n, "clockify.duration") \o rest])
            [] OTHER -> Continue([r_svc EXCEPT !.todo = rest])
  /\ UNCHANGED <<r_req, notFacadeVars>>

\* The two requests of getDashboardMetrics' Promise.all are answered: both
\* are made, and the operation throws when either fails.
R_TasksAndTags ==
  /\ Awaiting({"tasks&tags"})
  /\ \E ta \in {"ok", "fail"}, ra \in {"ok", "fail"}, n \in 0..MaxTasks,
        k \in 0..MaxReleases :
       /\ ta = "fail" => n = 0
       /\ ra = "fail" => k = 0
       /\ r_log' = r_log \o <<LogEntry("flowlu.tasks", ta = "ok", <<>>),
                              LogEntry("gitlab.tags", ra = "ok", <<>>)>>
       /\ IF FlowluRequest(ta).threw THEN Fail(FlowluRequest(ta).error)
          ELSE IF getReleases(ra).threw THEN Fail(getReleases(ra).error)
          ELSE Continue([r_svc EXCEPT
                 !.todo = Repeat(n, "clockify.duration"), !.releases = k])
  /\ UNCHANGED <<r_req, notFacadeVars>>

\* An awaited getTaskActualDuration is answered by the time tracker.
R_Clockify ==
  /\ Awaiting({"clockify.duration"})
  /\ \E ref \in {"t1", "t9"} :
       LET out == DurationOutcome(UpstreamDuration(ClockifyDb(ref))) IN
       /\ Logged("clockify.duration", UpstreamDuration(ClockifyDb(ref)).ok,
                 <<>>)
       /\ IF out.threw THEN Fail(NewError("Clockify API request failed"))
          ELSE Continue([r_svc EXCEPT
                 !.todo = Tail(r_svc.todo),
                 !.durations = Append(r_svc.durations, out.value)])
  /\ UNCHANGED <<r_req, notFacadeVars>>

\* The operation returns and the handler sends its result.
R_Return ==
  /\ r_pc = "service"
  /\ r_svc.todo = <<>>
  /\ r_res' = Append(r_res, Ok200([op |-> r_svc.op,
                                   projectId |-> r_svc.projectId,
                                   durations |-> r_svc.durations,
                                   branches |-> r_svc.branches]))
  /\ r_pc' = "responded"
  /\ UNCHANGED <<r_req, r_svc, r_log, notFacadeVars>>

NextFacade ==
  \/ R_Handler
  \/ R_Gitlab
  \/ R_Flowlu
  \/ R_TasksAndTags
  \/ R_Clockify
  \/ R_Return

SpecFacade == InitFacade /\ [][NextFacade]_vars

\* ------------------------------------------------------ SpecReleases
\* The releases the host can list: with a name, without one and with an
\* empty one.
ReleaseKinds ==
  { [name |-> Some("Release 1"), tag_name |-> "v1", created_at |-> "d1"],
    [name |-> None,              tag_name |-> "v2", created_at |-> "d2"],
    [name |-> Some(""),          tag_name |-> "v3", created_at |-> "d3"] }

\* The listings: no tag is listed twice.
ReleaseLists ==
  { q \in SeqsUpTo(ReleaseKinds, MaxTags) :
      \A i, j \in 1..Len(q) : i # j => q[i].tag_name # q[j].tag_name }

\* The task list of the project: a task of another type, then n - 1 bugs.
ProjectTasks(n) ==
  [i \in 1..n |-> [id |-> i, type_id |-> IF i = 1 THEN 3 ELSE 2]]

ProjectTaskLists == { ProjectTasks(n) : n \in {0, 2, MaxBugs + 1} }

\* What the upstreams answer to every call: the listing, the task list,
\* the answer to the branch lookups and the request that fails, if any.
ReleaseUpstreams ==
  [releases : ReleaseLists, tasks : ProjectTaskLists,
   branches : {"ok", "fail"},
   failing : {None, Some("gitlab.tags"), Some("flowlu.users"),
              Some("flowlu.tasks")}]

\* Values of Math.random(), in thousandths: the least and the greatest.
RandomSamples == {0, 999}

\* A variant of the random integer that rounds to the nearest.
RandomBelowRounded(u, n) == (u * n + 500) \div 1000

\* Math.floor(Math.random() * n), for the value u / 1000 of Math.random().
RandomBelow(u, n) == (u * n) \div 1000

\* Array.prototype.slice(0, k).
Slice(q, k) == SubSeq(q, 1, IF k < Len(q) THEN k ELSE Len(q))

\* Lines 484-489: the entry of a bug in a row.
BugEntry(bug) == [id |-> bug.id]

\* Lines 464-490: the row of a release, given the two values of
\* Math.random() the callback draws.
ReleaseRow(release, bugTasks, branches, u1, u2) ==
  LET developmentHours == RandomBelow(u1, 100)
      releaseBugs == Slice(bugTasks, RandomBelow(u2, 5))
  IN [releaseName |-> IF TruthyStr(release.name) THEN release.name[1]
                      ELSE release.tag_name,
      releaseDate |-> release.created_at,
      branch |-> getTagBranchInfo(release.tag_name, branches).branch,
      developmentHours |-> developmentHours,
      bugs |-> [i \in 1..Len(releaseBugs) |-> BugEntry(releaseBugs[i])]]

InitReleases ==
  /\ g_up \in ReleaseUpstreams
  /\ g_pc = "idle"
  /\ g_rows = <<>>
  /\ g_outs = <<>>
  /\ DurationIdle
  /\ StatusIdle
  /\ FacadeIdle
  /\ ReportsIdle
  /\ MetricsIdle
  /\ ClientsIdle
  /\ TasksIdle
  /\ MonitorIdle
  /\ LoopIdle

\* Lines 443-462: getProjectReleases is called (a second time once the
\* first call is over); the listing, the users and the tasks are awaited
\* in turn, a failure of one is rethrown, else the callbacks start.
G_Fetch ==
  /\ g_pc = "idle"
  /\ Len(g_outs) < 2
  /\ IF g_up.failing # None
     THEN /\ g_outs' = Append(g_outs, [status |-> "error", rows |-> <<>>])
          /\ UNCHANGED <<g_pc, g_rows>>
     ELSE /\ g_pc' = "map"
          /\ g_rows' = [i \in 1..Len(g_up.releases) |-> None]
          /\ UNCHANGED g_outs
  /\ UNCHANGED <<g_up, notReleaseVars>>

\* Lines 463-496: the callback of release i resumes after its branch
\* lookup, whatever the other callbacks have done, and returns its row.
G_Callback(i) ==
  /\ g_pc = "map"
  /\ g_rows[i] = None
  /\ \E u1, u2 \in RandomSamples :
       g_rows' = [g_rows EXCEPT ![i] =
         Some(ReleaseRow(g_up.releases[i],
                         SelectSeq(g_up.tasks, LAMBDA t : t.type_id = 2),
                         g_up.branches, u1, u2))]
  /\ UNCHANGED <<g_up, g_pc, g_outs, notReleaseVars>>

\* Lines 462 and 499: Promise.all resolves once every callback has
\* returned, with the rows in the order of the listing.
G_Return ==
  /\ g_pc = "map"
  /\ \A i \in 1..Len(g_rows) : g_rows[i] # None
  /\ g_outs' = Append(g_outs,
       [status |-> "ok", rows |-> [i \in 1..Len(g_rows) |-> g_rows[i][1]]])
  /\ g_pc' = "idle"
  /\ g_rows' = <<>>
  /\ UNCHANGED <<g_up, notReleaseVars>>

NextReleases ==
  \/ G_Fetch
  \/ \E i \in 1..Len(g_rows) : G_Callback(i)
  \/ G_Return

SpecReleases == InitReleases /\ [][NextReleases]_vars

\* ------------------------------------------------------ SpecTasks
\* The stages getProjectTasks asks for, as written in the two URLs.
Stages == {"9", "10"}

\* The bodies the task tracker answers with: a list of items, or a body
\* without response.items.
TaskBodies ==
  {[items |-> None]} \cup {[items |-> Some(q)] : q \in SeqsUpTo(ItemKinds, MaxTasks)}

\* Lines 237-240: response?.response?.items || [].
ItemsOf(body) == IF body.items = None THEN <<>> ELSE body.items[1]

InitTasks ==
  /\ TasksIdle
  /\ DurationIdle
  /\ StatusIdle
  /\ FacadeIdle
  /\ ReportsIdle
  /\ MetricsIdle
  /\ ClientsIdle
  /\ ReleasesIdle
  /\ MonitorIdle
  /\ LoopIdle

\* Lines 187-232: getProjectTasks is called; Promise.all gets the promises
\* of the two makeRequest calls, both started before anything is awaited.
T_Call ==
  /\ \A s \in Stages : t_req[s] = "none"
  /\ t_req' = [s \in Stages |-> "inflight"]
  /\ UNCHANGED <<t_ans, t_out, notTaskVars>>

\* makeRequest for a stage returns a body. Once both have, Promise.all
\* resolves and lines 236-261 combine and map the items.
T_Answer(stage) ==
  /\ t_req[stage] = "inflight"
  /\ \E body \in TaskBodies :
       /\ t_ans' = [t_ans EXCEPT ![stage] = Some(body)]
       /\ t_req' = [t_req EXCEPT ![stage] = "answered"]
       /\ IF t_out.status = "none" /\ \A s \in Stages : t_req'[s] = "answered"
          THEN t_out' = [status |-> "ok",
                         tasks |-> getProjectTasks(ItemsOf(t_ans'["9"][1]),
                                                   ItemsOf(t_ans'["10"][1]))]
          ELSE UNCHANGED t_out
  /\ UNCHANGED notTaskVars

\* makeRequest for a stage throws: Promise.all rejects at once with that
\* error and lines 262-265 rethrow it; a later answer changes nothing.
T_Fail(stage) ==
  /\ t_req[stage] = "inflight"
  /\ t_req' = [t_req EXCEPT ![stage] = "failed"]
  /\ t_out' = IF t_out.status = "none"
              THEN [status |-> "error", tasks |-> <<>>] ELSE t_out
  /\ UNCHANGED <<t_ans, notTaskVars>>

NextTasks ==
  \/ T_Call
  \/ \E stage \in Stages : T_Answer(stage)
  \/ \E stage \in Stages : T_Fail(stage)

SpecTasks == InitTasks /\ [][NextTasks]_vars

\* ------------------------------------------------------ SpecMonitor
\* The mainRoute of a logged transaction: the field is optional.
MainRoutes == {None, Some("/api/users"), Some("/api/dashboard")}

\* The duration of a posted transaction, in milliseconds: the field is
\* required.
PostedDurations == {None, Some(100), Some(300)}

InitMonitor ==
  /\ MonitorIdle
  /\ DurationIdle
  /\ StatusIdle
  /\ FacadeIdle
  /\ ReportsIdle
  /\ MetricsIdle
  /\ ClientsIdle
  /\ ReleasesIdle
  /\ TasksIdle
  /\ LoopIdle

\* POST /transactions: ApiTransaction.create stores the document and the
\* answer is 201, or validation fails and the answer is 500.
X_PostTransaction(mainRoute, duration) ==
  /\ Len(x_log) < MaxTransactions
  /\ IF duration = None
     THEN /\ x_res' = [status |-> 500]
          /\ UNCHANGED x_log
     ELSE /\ x_log' = Append(x_log, [mainRoute |-> mainRoute,
                                     duration |-> duration[1]])
          /\ x_res' = [status |-> 201]
  /\ UNCHANGED notMonitorVars

\* The documents of the collection whose mainRoute is the given one.
DocumentsOf(mainRoute) == SelectSeq(x_log, LAMBDA d : d.mainRoute = mainRoute)

\* { $group: { _id: '$mainRoute', avg: { $avg: '$duration' } } }: one
\* group per mainRoute of the collection, with the average of its
\* durations as a fraction.
RouteGroups ==
  { [id  |-> r,
     avg |-> [num |-> SumSeq([i \in 1..Len(DocumentsOf(r)) |->
                               DocumentsOf(r)[i].duration]),
              den |-> Len(DocumentsOf(r))]] :
      r \in {x_log[i].mainRoute : i \in 1..Len(x_log)} }

\* averageDuration[0]?.avg || 0, for the group the aggregation returns
\* first (first = None when it returns no group).
FirstAverage(first) ==
  IF first = None \/ first[1].avg.num = 0
  THEN [num |-> 0, den |-> 1] ELSE first[1].avg

\* GET /transactions/stats: the count and the aggregation are awaited; the
\* order in which $group returns its groups is not specified.
X_GetStats ==
  /\ \E first \in IF RouteGroups = {} THEN {None}
                   ELSE {Some(g) : g \in RouteGroups} :
       x_res' = [status |-> 200,
                 totalRequests |-> Len(x_log),
                 averageDuration |-> FirstAverage(first)]
  /\ UNCHANGED <<x_log, notMonitorVars>>

NextMonitor ==
  \/ \E r \in MainRoutes, d \in PostedDurations : X_PostTransaction(r, d)
  \/ X_GetStats

SpecMonitor == InitMonitor /\ [][NextMonitor]_vars

\* ------------------------------------------------------ SpecLoop
\* The operations that ask the time tracker for the duration of every
\* task of a list, with the number of task lists they can fetch.
LoopOperations ==
  { [op |-> "calculateMetrics", projects |-> n] : n \in 1..Cardinality(ProjectIds) }
    \cup { [op |-> "getDashboardMetrics", projects |-> 1],
           [op |-> "getTaskMetrics", projects |-> 1] }

\* The task lists getProjectTasks can return.
LoopTaskLists == { a.tasks : a \in TaskListAnswers }

\* The least index from i on of a task with both references, Len + 1 when
\* there is none: the tasks before it are skipped without any await.
RECURSIVE NextMeasured(_, _)
NextMeasured(tasks, i) ==
  IF i > Len(tasks) \/ HasRefs(tasks[i]) THEN i
  ELSE NextMeasured(tasks, i + 1)

\* A variant of the loop that starts the requests of all the remaining
\* tasks before it awaits any.
IssuedFromAllAtOnce(tasks, i) ==
  SelectSeq([k \in 1..Len(tasks) |-> k],
            LAMBDA k : k >= i /\ HasRefs(tasks[k]))

\* for (const task of tasks) { if (task.cf_8 && task.cf_9) { await
\* getTaskActualDuration(...) ... } }: the requests issued when the loop
\* runs from index i up to its next await.
IssuedFrom(tasks, i) ==
  IF NextMeasured(tasks, i) <= Len(tasks)
  THEN <<NextMeasured(tasks, i)>> ELSE <<>>

InitLoop ==
  /\ LoopIdle
  /\ DurationIdle
  /\ StatusIdle
  /\ FacadeIdle
  /\ ReportsIdle
  /\ MetricsIdle
  /\ ClientsIdle
  /\ ReleasesIdle
  /\ TasksIdle
  /\ MonitorIdle

\* The operation is invoked and runs up to the await of its (first) task
\* list.
L_Call(o) ==
  /\ l_pc = "idle"
  /\ l_op' = o.op
  /\ l_left' = o.projects
  /\ l_pc' = "fetch"
  /\ UNCHANGED <<l_tasks, l_reqs, l_inflight, notLoopVars>>

\* The loop runs over tasks from index i with the requests in unanswered:
\* to its next await, else to the fetch of the next project's tasks, else
\* to the return statement.
RunLoop(tasks, i, unanswered, left) ==
  LET issued == IssuedFrom(tasks, i) IN
    /\ l_inflight' = unanswered \cup {issued[k] : k \in 1..Len(issued)}
    /\ IF l_inflight' # {}
       THEN /\ l_pc' = "awaiting"
            /\ l_tasks' = tasks
            /\ l_reqs' = l_reqs \o issued
            /\ l_left' = left
       ELSE IF left > 0
       THEN /\ l_pc' = "fetch"
            /\ l_tasks' = <<>>
            /\ l_reqs' = <<>>
            /\ l_left' = left
       ELSE /\ l_pc' = "done"
            /\ l_tasks' = tasks
            /\ l_reqs' = l_reqs \o issued
            /\ l_left' = left

\* getProjectTasks returns the list and the loop starts, or it throws and
\* the operation rethrows.
L_Tasks ==
  /\ l_pc = "fetch"
  /\ \/ \E tasks \in LoopTaskLists : RunLoop(tasks, 1, {}, l_left - 1)
     \/ /\ l_pc' = "done"
        /\ UNCHANGED <<l_left, l_tasks, l_reqs, l_inflight>>
  /\ UNCHANGED <<l_op, notLoopVars>>

\* getTaskActualDuration returns for task j (it never throws) and the
\* loop goes on with the next task.
L_Duration(j) ==
  /\ l_pc = "awaiting"
  /\ j \in l_inflight
  /\ RunLoop(l_tasks, j + 1, l_inflight \ {j}, l_left)
  /\ UNCHANGED <<l_op, notLoopVars>>

NextLoop ==
  \/ \E o \in LoopOperations : L_Call(o)
  \/ L_Tasks
  \/ \E j \in 1..Len(l_tasks) : L_Duration(j)

SpecLoop == InitLoop /\ [][NextLoop]_vars

\* ------------------------------------------------------ SpecRetry
\* The task-tracker calls of SpecClients under the scheduling of the event
\* loop: a timer that is due fires, a request that is in flight is
\* answered, and time passes while a call waits.

\* Time passes while some call sleeps until a later time.
TickWaiting ==
  /\ \E c \in Calls : /\ calls[c].pc \in {"rateSleep", "retrySleep"}
                       /\ calls[c].wakeAt > now
  /\ now' = now + TickMs
  /\ UNCHANGED <<notClientVars, flowlu, clockify, calls, lastSent>>

NextRetry ==
  \/ \E c \in Calls : F_Begin(c)
  \/ \E c \in Calls : F_WakeRateLimit(c)
  \/ \E c \in Calls : F_Respond(c)
  \/ \E c \in Calls : F_WakeRetry(c)
  \/ TickWaiting

\* setTimeout callbacks that are due run, every HTTP attempt gets its
\* response or its failure, and the clock does not stop while a call
\* waits. Nothing obliges a caller to begin a call.
FairRetry ==
  /\ \A c \in Calls : WF_vars(F_WakeRateLimit(c))
  /\ \A c \in Calls : WF_vars(F_Respond(c))
  /\ \A c \in Calls : WF_vars(F_WakeRetry(c))
  /\ WF_vars(TickWaiting)

SpecRetry == InitClients /\ [][NextRetry]_vars /\ FairRetry

\* ------------------------------------------------------------- claims
\* Number of decimal digits of a non-negative integer.
NumDigits(n) == CHOOSE k \in 1..(MaxDigits + 2) :
                  (k = 1 \/ n >= Pow10(k - 1)) /\ n < Pow10(k)

\* Some task of the project being processed lacks a tracking reference.
SomeTaskSkipped == \E i \in 1..Len(m_tasks) : ~HasRefs(m_tasks[i])

\* C1: totalBugs + totalFeatures is the number of received tasks that have
\* both tracking references populated, and totalBugs is the number of those
\* whose typeId is 2 (so the others are exactly the features); this holds
\* whenever a project's task list is exhausted and in the returned metrics.
C1_BugFeaturePartition ==
  /\ (m_pc = "loop" /\ m_ti > Len(m_tasks)) =>
       /\ m_tot.totalBugs + m_tot.totalFeatures = m_seen.both
       /\ m_tot.totalBugs = m_seen.bugs
  /\ m_pc = "done" =>
       /\ m_out.totalBugs + m_out.totalFeatures = m_seen.both
       /\ m_out.totalBugs = m_seen.bugs
       /\ m_out.totalFeatures = m_seen.both - m_seen.bugs

\* C1 witness: metrics were returned with a bug and a feature counted while
\* the last project also had a task without both references.
C1_Witness ==
  /\ m_pc = "done"
  /\ m_out.totalBugs >= 1
  /\ m_out.totalFeatures >= 1
  /\ SomeTaskSkipped

\* C2: in the returned metrics totalCommits is the number of commits the
\* tag comparison returned, totalQaTime is the sum of the time-tracker
\* durations of the counted bug tasks and totalDevelopmentTime the sum of
\* the durations of the counted non-bug tasks.
C2_TotalsAreSums ==
  m_pc = "done" =>
    /\ m_out.totalCommits = m_git.upstream
    /\ m_out.totalQaTime = m_seen.qa
    /\ m_out.totalDevelopmentTime = m_seen.dev

\* C2 witness: 5 commits, 2 bugs and 2 features, each of duration 2, give
\* totalCommits 5, totalQaTime 4 and totalDevelopmentTime 4.
C2_Witness ==
  /\ m_pc = "done"
  /\ m_out.totalCommits = 5
  /\ m_out.totalBugs = 2
  /\ m_out.totalFeatures = 2
  /\ m_out.totalQaTime = 4 * Scale
  /\ m_out.totalDevelopmentTime = 4 * Scale

\* The projects were listed and the invocation went past the filter.
PastProjectFilter ==
  \/ m_pc \in {"loop", "done"}
  \/ m_pc = "failed" /\ m_out.message = "Project not found"

\* C3: with a projectId supplied only the projects with that id have their
\* tasks fetched, with none supplied every listed project has, and with a
\* projectId that no listed project has the invocation raises an error
\* without fetching any task list or duration.
C3_ProjectFilter ==
  LET pid == m_args.projectId IN
    /\ (m_pc = "done" /\ pid # None) =>
         m_calls.projects = SelectSeq(m_projects, LAMBDA p : p = pid[1])
    /\ (m_pc = "done" /\ pid = None) => m_calls.projects = m_projects
    /\ (PastProjectFilter /\ pid # None
          /\ \A i \in 1..Len(m_projects) : m_projects[i] # pid[1]) =>
         /\ m_pc = "failed"
         /\ m_calls.projects = <<>>
         /\ m_calls.durations = 0

\* The task-tracker calls.
FlowluCalls == {c \in Calls : calls[c].kind = "flowlu"}

\* C4: when a task-tracker request was answered 429 and its retry is
\* answered 200, the call has returned, without error, the body of that
\* 200 answer.
C4_RetryThenSuccess ==
  \A c \in FlowluCalls :
    (calls[c].n429 >= 1 /\ calls[c].status = 200) =>
       /\ calls[c].pc = "done"
       /\ calls[c].sent = calls[c].n429 + 1
       /\ calls[c].out = [status |-> "ok",
                          value |-> ResponseBody(c, calls[c].sent)]

\* C4 witness: a call succeeded on a retry.
C4_Witness ==
  \E c \in FlowluCalls :
    calls[c].pc = "done" /\ calls[c].n429 >= 1 /\ calls[c].retryCount >= 1

\* C5 as claimed: a call that gave up after nothing but 429 answers has
\* sent exactly 3 HTTP requests.
C5_ThreeAttempts ==
  \A c \in FlowluCalls :
    (calls[c].pc = "failed" /\ calls[c].status = 429) => calls[c].sent = 3

\* C5 as amended: a call that gave up after nothing but 429 answers has
\* sent exactly MAX_RETRIES + 1 = 4 HTTP requests (the first attempt and
\* three retries), every one of them answered 429, and no call ever sends
\* a fifth.
C5_FourAttempts ==
  \A c \in FlowluCalls :
    /\ calls[c].sent <= MAX_RETRIES + 1
    /\ (calls[c].pc = "failed" /\ calls[c].status = 429) =>
          /\ calls[c].sent = MAX_RETRIES + 1
          /\ calls[c].n429 = calls[c].sent

\* C5 witness: a call gave up after its fourth 429.
C5_Witness ==
  \E c \in FlowluCalls :
    calls[c].pc = "failed" /\ calls[c].status = 429 /\ calls[c].sent = 4

\* C6: a request answered with a failure other than 429 is not sent again
\* and raises the wrapped error (one attempt when it is the first answer);
\* the sleep before every retry ends RETRY_DELAY after the 429 whatever the
\* retry count, so a retry is never on its way earlier than that.
C6_NoRetryAndFixedBackoff ==
  \A c \in FlowluCalls :
    /\ calls[c].status \notin {0, 200, 429} =>
         /\ calls[c].pc = "failed"
         /\ calls[c].out = [status |-> "error",
                            message |-> <<"Flowlu API request failed: ",
                                          calls[c].status>>]
         /\ calls[c].sent = calls[c].n429 + 1
    /\ calls[c].pc = "retrySleep" =>
         /\ calls[c].status = 429
         /\ calls[c].wakeAt = calls[c].recvAt + RETRY_DELAY
    /\ (calls[c].retryCount >= 1 /\ calls[c].pc \in {"rateSleep", "inflight"}) =>
         now >= calls[c].recvAt + RETRY_DELAY

\* C6 witness: one call failed on its only attempt with a 500 while the
\* other has its retry on the way.
C6_Witness ==
  \E c, d \in FlowluCalls :
    /\ calls[c].pc = "failed" /\ calls[c].status = 500 /\ calls[c].sent = 1
    /\ calls[d].pc = "inflight" /\ calls[d].retryCount >= 1

\* C7: whenever the task-tracker client sends an HTTP request, at least
\* RATE_LIMIT_DELAY has passed since it sent the previous one.
C7_MinimumSpacing ==
  [][\A c \in Calls :
       (calls'[c].kind = "flowlu" /\ calls'[c].sent > calls[c].sent
          /\ lastSent # None)
         => now - lastSent[1] >= RATE_LIMIT_DELAY]_vars

\* C8: a task-tracker call that began after another call had returned
\* successfully sends its requests no earlier than RATE_LIMIT_DELAY after
\* the answer to that call was received.
C8_SequentialSpacing ==
  [][\A c \in Calls :
       (calls'[c].kind = "flowlu" /\ calls'[c].sent > calls[c].sent)
         => \A d \in calls'[c].after :
              now >= calls[d].recvAt + RATE_LIMIT_DELAY]_vars

\* C8 witness: the second call began after the first had returned, slept
\* for the rest of the delay and has sent its request.
C8_Witness ==
  \E c \in FlowluCalls :
    /\ calls[c].after # {}
    /\ calls[c].pc = "inflight"
    /\ calls[c].retryCount = 0
    /\ calls[c].wakeAt > 0

C10_LiteralConcatenation ==
  (d_src.kind = "HM" /\ d_out # None) =>
     /\ d_out[1] = d_src.h * Scale
                     + d_src.m * Pow10(MaxDigits - NumDigits(d_src.m))
     /\ (d_src.h = 2 /\ d_src.m = 45 => d_out[1] * 100 = 245 * Scale)
     /\ (d_src.h = 1 /\ d_src.m \in {5, 50} => d_out[1] * 10 = 15 * Scale)

\* C10 witness: PT1H50M has been parsed and gave 1.5, the value of PT1H5M.
C10_Witness ==
  /\ d_src = [kind |-> "HM", h |-> 1, hz |-> 0, m |-> 50, mz |-> 0]
  /\ d_out = Some(getTaskActualDuration(UpstreamDuration(
                [kind |-> "HM", h |-> 1, hz |-> 0, m |-> 5, mz |-> 0])))
  /\ d_out[1] * 10 = 15 * Scale

\* C11: getTaskActualDuration returns 0 when the upstream body has no
\* duration, when the duration is the empty string or the zero duration PT0S,
\* and when the duration cannot be parsed; and it never raises an error.
C11_ZeroWithoutRaising ==
  /\ ~d_threw
  /\ (d_src.kind \in {"absent", "empty", "zero", "text", "junk"} /\ d_out # None
        => d_out = Some(0))

\* C11 witness: a body without a duration has been answered with 0.
C11_Witness ==
  /\ d_src.kind = "absent"
  /\ UpstreamDuration(d_src).duration = None
  /\ d_out = Some(0)

\* C12: getDurationStatus returns "Estimate Not Set" when the estimate is
\* undefined or 0, whatever the actual duration; otherwise "Task Not Started"
\* when the actual duration is 0; otherwise "Overdue" when the actual
\* duration is greater than the estimate; otherwise "On Time"; and it always
\* returns one of these four values.
C12_StatusPrecedence ==
  s_out # None =>
    LET e == s_in.estimate
        a == s_in.actualDuration
    IN /\ s_out[1] \in {"Estimate Not Set", "Task Not Started", "Overdue", "On Time"}
       /\ (e = None \/ e = Some(0)) => s_out[1] = "Estimate Not Set"
       /\ (e # None /\ e # Some(0) /\ a = 0) => s_out[1] = "Task Not Started"
       /\ (e # None /\ e # Some(0) /\ a # 0 /\ a > e[1]) => s_out[1] = "Overdue"
       /\ (e # None /\ e # Some(0) /\ a # 0 /\ a <= e[1]) => s_out[1] = "On Time"

\* C12 witness: with no estimate and no time spent the status is "Estimate
\* Not Set", and an actual duration equal to the estimate was "On Time".
C12_Witness ==
  /\ s_in = [estimate |-> None, actualDuration |-> 0]
  /\ s_out = Some("Estimate Not Set")
  /\ getDurationStatus(Some(HalfHour), HalfHour) = "On Time"

\* The provider calls of the facade's log, by provider.
SourceControlCalls ==
  {"gitlab.tag.older", "gitlab.tag.newer", "gitlab.compare", "gitlab.tags"}
BranchLookupCalls == {"gitlab.tagInfo", "gitlab.branches"}
TaskTrackerCalls ==
  {"flowlu.search", "flowlu.users", "flowlu.projects", "flowlu.tasks"}
TimeTrackerCalls == {"clockify.duration"}

\* Some HTTP request among the named calls failed.
FailedCall(names) ==
  \E i \in 1..Len(r_log) : ~r_log[i].ok /\ r_log[i].call \in names

\* A request to a dashboard route has been answered.
DashboardResponded ==
  r_pc = "responded" /\ r_req.endpoint # "compare-tags" /\ Len(r_res) = 1

\* The messages of the errors the clients throw for a failed request.
ProviderMessages ==
  {"Failed to retrieve tag data", "Failed to retrieve commits",
   "Request failed", "Flowlu API request failed"}

\* The duration requests of the log, in order.
DurationLog ==
  SelectSeq(r_log, LAMBDA e : e.call = "clockify.duration")

ProjectIdRoutes ==
  {"task-metrics", "bug-metrics", "project-releases", "releases"}

\* C14: every dashboard handler sends exactly one response: while none is
\* sent the operation returns or awaits a provider call that will be
\* answered, and none is sent after the first; the
\* response is the result with 200 once the operation returned, or the
\* handler's error text and details with 500, or "Project ID is required"
\* with 400, the latter exactly when one of the four routes is called
\* without projectId, and then no operation and no provider was called.
C14_OneResponse ==
  /\ Len(r_res) <= 1
  /\ (r_pc = "responded") <=> (Len(r_res) = 1)
  /\ (r_pc = "service" /\ r_svc.todo # <<>>)
       => Head(r_svc.todo) \in
            SourceControlCalls \cup TaskTrackerCalls \cup TimeTrackerCalls
              \cup {"gitlab.branchInfo", "tasks&tags"}
  /\ DashboardResponded =>
       LET x == r_res[1]
           missing == r_req.endpoint \in ProjectIdRoutes
                        /\ (r_req.projectId = None \/ r_req.projectId = Some(""))
       IN /\ \/ /\ x.status = 200 /\ x.result # None /\ x.error = None
                /\ r_svc.op # "none" /\ r_svc.todo = <<>>
             \/ /\ x.status = 500 /\ x.result = None
                /\ x.error = Some(ErrorLabel(r_req.endpoint))
                /\ x.details # None
             \/ /\ x.status = 400 /\ x.result = None
                /\ x.error = Some("Project ID is required")
                /\ x.details # None
          /\ missing <=> (x.status = 400)
          /\ x.status = 400 => r_svc = NoService /\ r_log = <<>>

\* C14 witness: GET /dashboard/releases without projectId was answered once,
\* with 400, and nothing was called.
C14_Witness ==
  /\ r_req.endpoint = "releases" /\ r_req.projectId = None
  /\ r_pc = "responded"
  /\ Len(r_res) = 1 /\ r_res[1].status = 400
  /\ r_log = <<>> /\ r_svc = NoService

\* C15: a request to GET /dashboard/metrics with olderTag and newerTag and
\* without projectId is delegated to calculateMetrics with no project
\* filter, and is not rejected.
C15_ProjectIdOptional ==
  (/\ r_req.endpoint = "metrics"
   /\ r_req.olderTag # None /\ r_req.newerTag # None
   /\ r_req.projectId = None
   /\ r_pc # "received")
  => /\ r_svc.op = "calculateMetrics"
     /\ r_svc.projectId = None

\* The requests of C16: a required tag missing on GET /dashboard/metrics,
\* the search term missing or empty on GET /dashboard/projects/search, a
\* body other than the well-formed one on POST /gitlab/compare-tags.
MalformedRequest ==
  \/ /\ r_req.endpoint = "metrics"
     /\ (r_req.olderTag = None \/ r_req.newerTag = None)
  \/ /\ r_req.endpoint = "projects/search"
     /\ (r_req.searchTerm = None \/ r_req.searchTerm = Some(""))
  \/ /\ r_req.endpoint = "compare-tags"
     /\ r_req.body # Some(ValidBody)

C17_UnknownProject ==
  (r_pc = "responded" /\ r_req.endpoint \in {"task-metrics", "bug-metrics"})
  => \A i \in 1..Len(r_log) :
       (/\ r_log[i].call = "flowlu.projects" /\ r_log[i].ok
        /\ \A k \in 1..Len(r_log[i].info) :
             r_log[i].info[k] # NumberOf(r_req.projectId[1]))
       => /\ i = Len(r_log)
          /\ \A j \in 1..Len(r_log) :
               r_log[j].call \notin {"flowlu.tasks", "clockify.duration"}
          /\ Len(r_res) = 1
          /\ r_res[1].status = 500
          /\ r_res[1].error = Some(ErrorLabel(r_req.endpoint))
          /\ r_res[1].details =
               Some([kind |-> "message", text |-> "Project with ID not found"])

\* C17 witness: GET /dashboard/task-metrics?projectId=3 against the projects
\* 1 and 2 was answered with 500 after the users and the projects were
\* fetched.
C17_Witness ==
  /\ r_req.endpoint = "task-metrics" /\ r_req.projectId = Some("3")
  /\ r_pc = "responded"
  /\ Len(r_log) = 2
  /\ r_log[2] = LogEntry("flowlu.projects", TRUE, <<1, 2>>)
  /\ r_res[1].status = 500

\* C18: every branch getProjectReleases obtained is "unknown" when the tag
\* lookup failed, the tag had no commit id, the branch lookup failed or no
\* branch held the commit; and once the releases, the users and the tasks
\* were fetched the request is answered with 200 and one entry per release,
\* whatever the answers to the branch lookups were.
C18_BranchUnknown ==
  /\ \A i \in 1..Len(r_svc.branches) :
       (r_svc.branches[i].tag # "ok" \/ r_svc.branches[i].branches # "ok")
         => r_svc.branches[i].branch = "unknown"
  /\ (/\ r_pc = "responded" /\ r_req.endpoint = "project-releases"
      /\ Len(r_log) >= 3
      /\ \A i \in 1..3 : r_log[i].ok)
     => /\ r_res[1].status = 200
        /\ Len(r_res[1].result[1].branches) = r_svc.releases
        /\ r_res[1].result[1].branches = r_svc.branches

\* C18 witness: a release whose branch lookup failed is in the result of
\* getProjectReleases with branch "unknown".
C18_Witness ==
  /\ r_pc = "responded" /\ r_req.endpoint = "project-releases"
  /\ r_res[1].status = 200
  /\ \E i \in 1..Len(r_res[1].result[1].branches) :
       /\ r_res[1].result[1].branches[i].branches = "fail"
       /\ r_res[1].result[1].branches[i].branch = "unknown"
  /\ FailedCall({"gitlab.branches"})

\* The message a response carries: the details of a dashboard handler, the
\* error of POST /gitlab/compare-tags.
ResponseMessage(x) ==
  IF r_req.endpoint = "compare-tags" THEN x.error[1] ELSE x.details[1].text

\* C19: when the comparison is answered with compare_same_ref or
\* compare_timeout, it is the last provider call of the request, which is
\* answered with 500 and no result; the message is that of the identical
\* references when that flag is set, with or without the other, and that
\* of the timeout otherwise.
C19_CompareFlags ==
  r_pc = "responded" =>
    \A i \in 1..Len(r_log) :
      (/\ r_log[i].call = "gitlab.compare" /\ r_log[i].ok
       /\ (r_log[i].info[1] \/ r_log[i].info[2]))
      => /\ i = Len(r_log)
         /\ Len(r_res) = 1
         /\ r_res[1].status = 500
         /\ r_res[1].result = None
         /\ ResponseMessage(r_res[1]) =
              IF r_log[i].info[1] THEN "Cannot compare the same reference"
              ELSE "Comparison timed out"

\* C19 witness: a metrics request whose comparison carried both flags was
\* answered with 500 and the message of the identical references.
C19_Witness ==
  /\ r_pc = "responded" /\ r_req.endpoint = "metrics"
  /\ Len(r_log) = 3
  /\ r_log[3] = LogEntry("gitlab.compare", TRUE, <<TRUE, TRUE>>)
  /\ r_res[1].status = 500
  /\ r_res[1].details[1].text = "Cannot compare the same reference"

\* Two quotients kept as fractions are the same number.
SameNumber(a, b) == a.num * b.den = b.num * a.den

\* C20: on the same task list and the same durations, getTaskMetrics
\* returns the totalTasks, inProgress, completed, overdue and
\* averageCompletionTime of getDashboardMetrics().taskMetrics, and
\* getBugMetrics returns the totalBugs, criticalBugs, resolvedBugs and
\* averageResolutionTime of getDashboardMetrics().bugMetrics.
C20_ProjectScopedAgree ==
  /\ (p_out.dashboard # None /\ p_out.task # None) =>
       LET d == p_out.dashboard[1].taskMetrics
           t == p_out.task[1]
       IN /\ t.totalTasks = d.totalTasks
          /\ t.inProgress = d.inProgress
          /\ t.completed = d.completed
          /\ t.overdue = d.overdue
          /\ SameNumber(t.averageCompletionTime, d.averageCompletionTime)
  /\ (p_out.dashboard # None /\ p_out.bug # None) =>
       LET d == p_out.dashboard[1].bugMetrics
           b == p_out.bug[1]
       IN /\ b.totalBugs = d.totalBugs
          /\ b.criticalBugs = d.criticalBugs
          /\ b.resolvedBugs = d.resolvedBugs
          /\ SameNumber(b.averageResolutionTime, d.averageResolutionTime)

\* C21: criticalBugs of getBugMetrics and of getDashboardMetrics is the
\* number of tasks of type 2 whose estimate is present and strictly above
\* 8 hours: a bug estimated at 8 or 0 hours or not at all, and a task of
\* another type whatever its estimate, is not counted.
CriticalIndexes ==
  { i \in 1..Len(p_tasks) :
      /\ p_tasks[i].type_id = 2
      /\ p_tasks[i].estimate # None
      /\ p_tasks[i].estimate[1] > 8 * Scale }

C21_CriticalBugs ==
  /\ p_out.bug # None =>
       p_out.bug[1].criticalBugs = Cardinality(CriticalIndexes)
  /\ p_out.dashboard # None =>
       p_out.dashboard[1].bugMetrics.criticalBugs = Cardinality(CriticalIndexes)

C21_Witness ==
  /\ p_out.bug # None
  /\ p_out.dashboard # None
  /\ \E i, j \in 1..Len(p_tasks) :
       /\ p_tasks[i].type_id = 2 /\ p_tasks[i].estimate = Some(8 * Scale)
       /\ p_tasks[j].type_id = 2 /\ p_tasks[j].estimate = Some(9 * Scale)
  /\ p_out.bug[1].criticalBugs = 1
  /\ p_out.dashboard[1].bugMetrics.criticalBugs = 1

\* C29: the averages never divide by zero and divide by the full count:
\* averageCompletionTime of getTaskMetrics is 0 when no task is completed,
\* else the durations of the completed tasks with both references, summed,
\* over the number of all completed tasks; averageResolutionTime of
\* getBugMetrics likewise over the resolved bugs.
CompletedIndexes == { i \in 1..Len(p_tasks) : p_tasks[i].workflow_stage_id = 10 }

ResolvedIndexes == { i \in CompletedIndexes : p_tasks[i].type_id = 2 }

DurationsOver(indexes) ==
  SumSeq([i \in 1..Len(p_tasks) |->
            IF i \in indexes /\ TruthyStr(p_tasks[i].cf_8) /\ TruthyStr(p_tasks[i].cf_9)
            THEN DurationOf(p_tasks[i]) ELSE 0])

IsAverageOver(average, indexes) ==
  /\ average.den > 0
  /\ IF indexes = {}
     THEN average.num = 0
     ELSE average.num * Cardinality(indexes) = DurationsOver(indexes) * average.den

C29_Averages ==
  /\ p_out.task # None =>
       IsAverageOver(p_out.task[1].averageCompletionTime, CompletedIndexes)
  /\ p_out.bug # None =>
       IsAverageOver(p_out.bug[1].averageResolutionTime, ResolvedIndexes)

C29_Witness ==
  /\ p_out.task # None
  /\ p_out.bug # None
  /\ Cardinality(ResolvedIndexes) = 2
  /\ \E i \in ResolvedIndexes : ~TruthyStr(p_tasks[i].cf_8)
  /\ DurationsOver(ResolvedIndexes) > 0
  /\ p_out.bug[1].averageResolutionTime.den = 2
  /\ p_out.task[1].averageCompletionTime.num = DurationsOver(CompletedIndexes)

C29_WitnessNoneCompleted ==
  /\ p_out.task # None
  /\ p_out.bug # None
  /\ Len(p_tasks) > 0
  /\ CompletedIndexes = {}
  /\ p_out.task[1].averageCompletionTime.num = 0

\* C30: the counts are consistent: in getTaskMetrics inProgress + completed
\* is at most totalTasks and overdue at most the number of tasks with both
\* references; in getBugMetrics resolvedBugs and criticalBugs are at most
\* totalBugs; in getDashboardMetrics totalFeatures + totalBugs of
\* releaseMetrics is totalTasks of taskMetrics; every count is a natural
\* number.
ReferencedIndexes ==
  { i \in 1..Len(p_tasks) :
      TruthyStr(p_tasks[i].cf_8) /\ TruthyStr(p_tasks[i].cf_9) }

C30_CountsConsistent ==
  /\ p_out.task # None =>
       LET t == p_out.task[1] IN
         /\ {t.totalTasks, t.inProgress, t.completed, t.overdue} \subseteq Nat
         /\ t.inProgress + t.completed <= t.totalTasks
         /\ t.overdue <= Cardinality(ReferencedIndexes)
  /\ p_out.bug # None =>
       LET b == p_out.bug[1] IN
         /\ {b.totalBugs, b.criticalBugs, b.resolvedBugs} \subseteq Nat
         /\ b.resolvedBugs <= b.totalBugs
         /\ b.criticalBugs <= b.totalBugs
  /\ p_out.dashboard # None =>
       LET d == p_out.dashboard[1] IN
         /\ {d.releaseMetrics.totalFeatures, d.releaseMetrics.totalBugs,
             d.taskMetrics.totalTasks, d.taskMetrics.inProgress,
             d.taskMetrics.completed, d.taskMetrics.overdue,
             d.bugMetrics.totalBugs, d.bugMetrics.criticalBugs,
             d.bugMetrics.resolvedBugs} \subseteq Nat
         /\ d.releaseMetrics.totalFeatures + d.releaseMetrics.totalBugs
              = d.taskMetrics.totalTasks

C30_Witness ==
  /\ p_out.task # None
  /\ p_out.bug # None
  /\ p_out.dashboard # None
  /\ p_out.task[1].inProgress = 1
  /\ p_out.task[1].completed = 1
  /\ p_out.task[1].overdue = 1
  /\ Cardinality(ReferencedIndexes) = 1
  /\ p_out.bug[1].criticalBugs = 1
  /\ p_out.bug[1].resolvedBugs = 1
  /\ p_out.dashboard[1].releaseMetrics.totalFeatures = 1
  /\ p_out.dashboard[1].releaseMetrics.totalBugs = 1

\* C22: getProjectReleases returns one row per listed release, in the order
\* of the listing; developmentHours is an integer of 0..99 and bugs the
\* first entries, four at most, of the project's tasks of type 2. Neither
\* is derived from the release: two calls that get the same answers from
\* the upstreams can return different hours and bugs.
BugIds ==
  LET bugs == SelectSeq(g_up.tasks, LAMBDA t : t.type_id = 2)
  IN [i \in 1..Len(bugs) |-> [id |-> bugs[i].id]]

C22_ReleaseRows ==
  \A c \in 1..Len(g_outs) :
    g_outs[c].status = "ok" =>
      LET rows == g_outs[c].rows IN
        /\ Len(rows) = Len(g_up.releases)
        /\ \A i \in 1..Len(rows) :
             /\ rows[i].releaseName \in
                  {g_up.releases[i].tag_name, "Release 1"}
             /\ rows[i].releaseDate = g_up.releases[i].created_at
             /\ rows[i].developmentHours \in 0..99
             /\ Len(rows[i].bugs) <= 4
             /\ Len(rows[i].bugs) <= Len(BugIds)
             /\ rows[i].bugs = SubSeq(BugIds, 1, Len(rows[i].bugs))

C22_Witness ==
  /\ Len(g_outs) = 2
  /\ g_outs[1].status = "ok"
  /\ g_outs[2].status = "ok"
  /\ Len(g_up.releases) = 2
  /\ Len(BugIds) = MaxBugs
  /\ g_outs[1].rows[1].developmentHours # g_outs[2].rows[1].developmentHours
  /\ Len(g_outs[1].rows[2].bugs) = 4
  /\ Len(g_outs[2].rows[2].bugs) = 0

\* C23: getProjectTasks starts its two fetches (stage 9, stage 10) together
\* and returns the items of stage 9 followed by those of stage 10, as many
\* tasks as both answers have items; when either fetch fails the call
\* fails and returns no list; an item without type id becomes a task of
\* type 1.
SameItem(task, item) ==
  /\ task.cf_8 = item.cf_8
  /\ task.cf_9 = item.cf_9
  /\ task.type_id = IF item.type_id = None THEN 1
                     ELSE NumberOf(item.type_id[1])

C23_BothStages ==
  /\ (t_req["9"] = "none") <=> (t_req["10"] = "none")
  /\ (\E s \in Stages : t_req[s] = "failed") => t_out.status = "error"
  /\ t_out.status = "ok" =>
       /\ \A s \in Stages : t_req[s] = "answered"
       /\ LET first  == ItemsOf(t_ans["9"][1])
              second == ItemsOf(t_ans["10"][1])
          IN /\ Len(t_out.tasks) = Len(first) + Len(second)
             /\ \A i \in 1..Len(first) : SameItem(t_out.tasks[i], first[i])
             /\ \A i \in 1..Len(second) :
                  SameItem(t_out.tasks[Len(first) + i], second[i])

C23_Witness ==
  /\ t_out.status = "ok"
  /\ Len(t_out.tasks) = 2
  /\ Len(ItemsOf(t_ans["9"][1])) = 1
  /\ ItemsOf(t_ans["9"][1])[1].type_id = None
  /\ t_out.tasks[1].type_id = 1
  /\ t_out.tasks[2].type_id = 2
  /\ t_out.tasks[1].cf_8 # t_out.tasks[2].cf_8

C23_WitnessFailure ==
  /\ t_req["9"] = "answered"
  /\ t_req["10"] = "failed"
  /\ t_out.status = "error"

C23_WitnessInFlight == \A s \in Stages : t_req[s] = "inflight"

\* C24: the averageDuration of GET /monitoring/transactions/stats is the sum
\* of the durations of all logged transactions over totalRequests, whatever
\* their routes, and 0 when there is none.
C24_AverageOverAll ==
  x_res.status = 200 =>
    /\ x_res.totalRequests = Len(x_log)
    /\ IF Len(x_log) = 0
       THEN x_res.averageDuration.num = 0
       ELSE x_res.averageDuration.num * Len(x_log) =
              SumSeq([i \in 1..Len(x_log) |-> x_log[i].duration])
                * x_res.averageDuration.den

\* C25: within one calculateMetrics, getDashboardMetrics or getTaskMetrics
\* invocation the duration requests are issued one at a time and in the
\* order of the task list: at most one is unanswered, none is issued
\* before the task list has been fetched, and there is exactly one per
\* task with both tracking references and none for any other task.
ReferencedUpTo(k) ==
  SelectSeq([i \in 1..k |-> i],
            LAMBDA i : TruthyStr(l_tasks[i].cf_8) /\ TruthyStr(l_tasks[i].cf_9))

C25_OneAtATime ==
  /\ Cardinality(l_inflight) <= 1
  /\ l_pc \in {"idle", "fetch"} => l_inflight = {} /\ l_reqs = <<>>
  /\ l_pc = "awaiting" =>
       \E j \in l_inflight :
         /\ TruthyStr(l_tasks[j].cf_8) /\ TruthyStr(l_tasks[j].cf_9)
         /\ l_reqs = ReferencedUpTo(j)
  /\ l_pc = "done" =>
       /\ l_inflight = {}
       /\ l_reqs = ReferencedUpTo(Len(l_tasks))

C25_Witness ==
  /\ l_pc = "done"
  /\ l_op = "getTaskMetrics"
  /\ Len(l_tasks) = 2
  /\ l_reqs = <<2>>

C25_WitnessTwoRequests ==
  /\ l_pc = "done"
  /\ l_op = "calculateMetrics"
  /\ l_reqs = <<1, 2>>

\* C26: calculateMetrics calls the providers in a fixed order: the tag
\* comparison (older tag, newer tag, commits), the release list, the user
\* list, the project list, then the task list of each project followed by
\* the durations of its tasks. It stops at the first step that fails: when
\* the tag comparison fails no request goes to the task tracker or the
\* time tracker, and no metrics are returned.
CalculateOrder ==
  <<"gitlab.tag.older", "gitlab.tag.newer", "gitlab.compare", "gitlab.tags",
    "flowlu.users", "flowlu.projects">>

C26_FixedOrder ==
  r_svc.op \in {"calculateMetrics", "getReleaseMetrics"} =>
    /\ \A i \in 1..Len(r_log) :
         /\ i <= Len(CalculateOrder) => r_log[i].call = CalculateOrder[i]
         /\ i > Len(CalculateOrder) =>
              r_log[i].call \in {"flowlu.tasks", "clockify.duration"}
         /\ i = Len(CalculateOrder) + 1 => r_log[i].call = "flowlu.tasks"
         /\ (~r_log[i].ok /\ r_log[i].call # "clockify.duration") =>
              /\ i = Len(r_log)
              /\ r_pc = "responded"
              /\ r_res[1].status = 500
    /\ (r_pc = "responded" /\ Len(r_log) <= 3) =>
         /\ r_res[1].status = 500
         /\ r_res[1].result = None
         /\ \A i \in 1..Len(r_log) :
              r_log[i].call \notin TaskTrackerCalls \cup TimeTrackerCalls
    /\ (r_pc = "responded" /\ r_res[1].status = 200) =>
         /\ Len(r_log) > Len(CalculateOrder)
         /\ \A i \in 1..Len(r_log) :
              r_log[i].ok \/ r_log[i].call = "clockify.duration"

C26_Witness ==
  /\ r_svc.op = "calculateMetrics"
  /\ r_pc = "responded"
  /\ Len(r_log) = 3
  /\ r_log[3].call = "gitlab.compare"
  /\ ~r_log[3].ok
  /\ r_res[1].status = 500

C26_WitnessAllSteps ==
  /\ r_svc.op = "calculateMetrics"
  /\ r_pc = "responded"
  /\ r_res[1].status = 200
  /\ \E i \in 1..Len(r_log) :
       /\ i + 2 <= Len(r_log)
       /\ r_log[i].call = "flowlu.tasks"
       /\ r_log[i + 1].call = "clockify.duration"
       /\ r_log[i + 2].call = "flowlu.tasks"

\* C27: lastRequestTime of the task-tracker client is written only when an
\* HTTP attempt succeeds; an attempt that fails, with 429 or otherwise,
\* leaves it as it was; and its value never decreases.
AttemptAnswered(c, statuses) ==
  /\ calls[c].kind = "flowlu"
  /\ calls[c].pc = "inflight"
  /\ calls'[c].pc # "inflight"
  /\ calls'[c].status \in statuses

C27_WrittenOnSuccess ==
  [][/\ flowlu'.lastRequestTime >= flowlu.lastRequestTime
     /\ flowlu'.lastRequestTime # flowlu.lastRequestTime =>
          \E c \in Calls : AttemptAnswered(c, {200})
     /\ (\E c \in Calls : AttemptAnswered(c, {429, 500})) =>
          flowlu'.lastRequestTime = flowlu.lastRequestTime]_vars

C27_Witness ==
  \E c, d \in Calls :
    /\ calls[c].kind = "flowlu" /\ calls[c].pc = "done"
    /\ calls[d].kind = "flowlu" /\ calls[d].pc \in {"retrySleep", "failed"}
    /\ calls[d].recvAt > calls[c].recvAt
    /\ flowlu.lastRequestTime = calls[c].recvAt

\* C28: every makeRequest call of the task-tracker client terminates, with
\* a body or with an error, after at most MAX_RETRIES + 1 HTTP attempts,
\* provided every attempt is answered; each retry raises the retry counter
\* by one, so that no call retries for ever, even when every answer is 429.
Finished(c) == calls[c].pc \in {"done", "failed"}

C28_Terminates ==
  /\ \A c \in Calls : (calls[c].pc # "idle") ~> Finished(c)
  /\ [](\A c \in Calls : /\ calls[c].retryCount <= MAX_RETRIES
                          /\ calls[c].sent <= calls[c].retryCount + 1)
  /\ [][\A c \in Calls :
         (calls[c].pc = "retrySleep" /\ calls'[c].pc # "retrySleep") =>
           calls'[c].retryCount = calls[c].retryCount + 1]_vars

C28_Witness ==
  \E c, d \in Calls :
    /\ c # d
    /\ calls[c].pc = "failed"
    /\ calls[c].status = 429
    /\ calls[c].retryCount = MAX_RETRIES
    /\ calls[c].sent = MAX_RETRIES + 1
    /\ calls[d].pc = "done"
    /\ calls[d].retryCount > 0

====
